---- MODULE Spec2Model ----
(***************************************************************************)
(* Zonal statistics of gridded rasters over administrative polygons        *)
(* (src/src/utils/raster_utils.py): the reducer fast_zonal_stats, the      *)
(* rasterizer rasterize_admin, the batch runner fast_zonal_stats_runner    *)
(* and the record validator validate_stats.                                *)
(*                                                                         *)
(* Numbers.  A float is an exact rational <<n, d>> in lowest terms with    *)
(* d > 0; np.nan is the empty tuple.  Raster samples and labels are        *)
(* whole numbers <<n, 1>>.  The "std" statistic is carried as its square   *)
(* (the population variance), which is exact and order-preserving on the   *)
(* non-negative reals; every other statistic is carried as itself.         *)
(* A 2-D raster is carried flattened in row-major order, the order numpy's *)
(* boolean-mask indexing reads it in.                                      *)
(***************************************************************************)
EXTENDS Integers, Sequences, FiniteSets, TLC

VARIABLES
    \* one call of fast_zonal_stats
    fz_src,        \* src_raster
    fz_admin,      \* admin_raster
    fz_n_adms,     \* n_adms (0 stands for None: the code tests "if n_adms")
    fz_fill,       \* rast_fill
    fz_result,     \* what the call produced
    \* one call of validate_stats
    v_iso3,        \* iso3, as its characters
    v_stats,       \* stats, the record
    v_now,         \* the date datetime.now() falls on
    v_result,      \* what the call produced
    \* one run of fast_zonal_stats_runner
    r_ds,            \* ds: dims, date axis, fourth axis, data
    r_gdf,           \* gdf: index, pcode and geometry of every row
    r_adm_level,     \* adm_level
    r_iso3,          \* iso3, as its characters
    r_pc,            \* where the run stands: start, dates, returned, raised
    r_admin_raster,  \* admin_raster, the label raster of the run
    r_date_i,        \* position of the date loop (line 190)
    r_val_i,         \* position of the fourth-axis loop (line 195)
    r_outputs,       \* outputs, the records collected so far
    r_ret,           \* what the run produced
    r_save,          \* save_to_database, engine, dataset once line 237 reads them
    r_args,          \* ds and gdf as the caller held them before the call
    r_calls,         \* the calls of rasterize_admin and fast_zonal_stats so far
    \* the dataset table and the writers that upsert into it
    db_schema,       \* the table: its columns and its unique constraint
    db_table,        \* the committed rows of the table
    db_w,            \* per writer: frame, chunksize, position, pending rows
    db_commits,      \* the commits so far: writer and table size after it
    \* one run of process_chunk
    pc_df_iso3s,     \* df_iso3s: the countries of the run, in row order
    pc_chunksize,    \* chunksize
    pc_row,          \* position of the loop over the countries (line 69)
    pc_at,           \* where the run stands: country, levels, disposed
    pc_adm_level,    \* adm_level, the variable of the loop of line 95
    pc_all_results,  \* all_results
    pc_qa,           \* the rows inserted into the qa table, oldest first
    pc_exc,          \* the exception that left process_chunk, if any
    \* one call of a COG processor
    g_dataset,       \* which processor is called
    g_cog_name,      \* cog_name, as its characters
    g_attrs,         \* da_in.attrs of the opened COG
    g_result,        \* what the call produced
    \* one call of generate_date_series
    gd_start_date,   \* start_date
    gd_end_date,     \* end_date, <<>> for None
    gd_frequency,    \* frequency
    gd_missing_dates, \* missing_dates, <<>> for None or the empty list
    gd_chunk_size,   \* chunk_size
    gd_result,       \* what the call produced
    \* the reductions of one row of binary64 samples
    nm_row,          \* a row of sorted_array
    nm_result        \* mean, max and min of the row

vars_fz == <<fz_src, fz_admin, fz_n_adms, fz_fill, fz_result>>

vars_v == <<v_iso3, v_stats, v_now, v_result>>

vars_run ==
    <<r_ds, r_gdf, r_adm_level, r_iso3, r_pc, r_admin_raster, r_date_i,
      r_val_i, r_outputs, r_ret, r_save, r_args, r_calls>>

vars_db == <<db_schema, db_table, db_w, db_commits>>

vars_pc ==
    <<pc_df_iso3s, pc_chunksize, pc_row, pc_at, pc_adm_level, pc_all_results,
      pc_qa, pc_exc>>

vars_cog == <<g_dataset, g_cog_name, g_attrs, g_result>>

vars_gd ==
    <<gd_start_date, gd_end_date, gd_frequency, gd_missing_dates,
      gd_chunk_size, gd_result>>

vars_nm == <<nm_row, nm_result>>

vars ==
    <<vars_fz, vars_v, vars_run, vars_db, vars_pc, vars_cog, vars_gd, vars_nm>>

-----------------------------------------------------------------------------
(* Bounds of the model *)

\* cells of the rasters handed to one reducer call
NPix == 3
\* largest declared polygon count of a reducer call
MaxAdm == 2
\* largest leadtime of a record handed to the validator
MaxLeadtimeIn == 7
\* most rows of a table handed to to_sql
MaxFrameRows == 2
\* most countries of a chunk
MaxCountries == 2
\* largest max_adm_level of a country
MaxAdmLevel == 1
\* cells of one spatial slice of the grid handed to the runner
GridCells == 2

-----------------------------------------------------------------------------
(* Floats *)

NaN == <<>>

IsNaN(x) == x = NaN

Abs(a) == IF a < 0 THEN -a ELSE a

RECURSIVE Gcd(_, _)
Gcd(a, b) == IF b = 0 THEN a ELSE Gcd(b, a % b)

\* n / d; 0/0 and x/0 are nan (numpy's mean of an empty slice)
Frac(n, d) ==
    IF d = 0 THEN NaN
    ELSE LET g == Gcd(Abs(n), Abs(d))
             s == IF d < 0 THEN -1 ELSE 1
         IN  <<(s * n) \div g, (s * d) \div g>>

Num(n) == <<n, 1>>

\* a <= b, a < b, a == b on floats: every comparison with nan is False
Le(a, b) == ~IsNaN(a) /\ ~IsNaN(b) /\ a[1] * b[2] <= b[1] * a[2]
Lt(a, b) == ~IsNaN(a) /\ ~IsNaN(b) /\ a[1] * b[2] < b[1] * a[2]
NpEq(a, b) == ~IsNaN(a) /\ ~IsNaN(b) /\ a[1] * b[2] = b[1] * a[2]

\* int(x) of a whole float
ToInt(x) == x[1] \div x[2]

RECURSIVE SumSeq(_)
SumSeq(s) == IF s = <<>> THEN 0 ELSE Head(s) + SumSeq(Tail(s))

RECURSIVE MaxSeq(_)
MaxSeq(s) ==
    IF Len(s) = 1 THEN Head(s)
    ELSE LET m == MaxSeq(Tail(s)) IN IF Head(s) >= m THEN Head(s) ELSE m

RECURSIVE MinSeq(_)
MinSeq(s) ==
    IF Len(s) = 1 THEN Head(s)
    ELSE LET m == MinSeq(Tail(s)) IN IF Head(s) <= m THEN Head(s) ELSE m

\* ascending insertion sort of a sequence of integers
RECURSIVE Insert(_, _)
Insert(x, s) ==
    IF s = <<>> THEN <<x>>
    ELSE IF x <= Head(s) THEN <<x>> \o s
    ELSE <<Head(s)>> \o Insert(x, Tail(s))

RECURSIVE SortInts(_)
SortInts(s) == IF s = <<>> THEN <<>> ELSE Insert(Head(s), SortInts(Tail(s)))

\* the elements of a set of integers in ascending order
RECURSIVE SortSet(_)
SortSet(S) ==
    IF S = {} THEN <<>>
    ELSE LET m == CHOOSE x \in S : \A y \in S : x <= y
         IN  <<m>> \o SortSet(S \ {m})

-----------------------------------------------------------------------------
(* fast_zonal_stats *)

\* stacked_arrays[1][~np.isnan(stacked_arrays[1])]
DropNans(arr) == SelectSeq(arr, LAMBDA v : ~IsNaN(v))

\* the whole-number values of the non-nan entries of a row
RowVals(row) ==
    LET kept == DropNans(row) IN [k \in DOMAIN kept |-> ToInt(kept[k])]

\* np.unique(arr, return_counts=True): the distinct values in ascending
\* order and how often each occurs
NpUnique(arr) ==
    LET ids == SortSet({ToInt(arr[k]) : k \in DOMAIN arr})
    IN  [geom_ids |-> [k \in DOMAIN ids |-> Num(ids[k])],
         pixel_count |-> [k \in DOMAIN ids |->
             Cardinality({j \in DOMAIN arr : ToInt(arr[j]) = ids[k]})]]

\* stacked_arrays[0][stacked_arrays[1] == geom_i]
MaskedValues(src_raster, admin_raster, geom_i) ==
    LET hit == {j \in DOMAIN admin_raster : NpEq(admin_raster[j], geom_i)}
        RECURSIVE Take(_)
        Take(j) == IF j > Len(src_raster) THEN <<>>
                   ELSE (IF j \in hit THEN <<src_raster[j]>> ELSE <<>>)
                        \o Take(j + 1)
    IN  Take(1)

\* FilledArray with the working array zero-filled (np.zeros) instead of
\* fill-filled
FilledArray_zeros(n_features, largest_geom, rast_fill) ==
    [r \in 1..n_features |-> [c \in 1..largest_geom |-> <<0, 1>>]]

\* np.empty(shape=(n_features, largest_geom)); sorted_array[:] = rast_fill
FilledArray(n_features, largest_geom, rast_fill) ==
    [r \in 1..n_features |-> [c \in 1..largest_geom |-> rast_fill]]

\* ScatterRow writing one pixel too few (0:n_pixels - 1)
ScatterRow_short(row, n_pixels, values) ==
    [c \in DOMAIN row |-> IF c < n_pixels THEN values[c] ELSE row[c]]

\* sorted_array[int(geom_i), 0:n_pixels] = values
ScatterRow(row, n_pixels, values) ==
    [c \in DOMAIN row |-> IF c <= n_pixels THEN values[c] ELSE row[c]]

\* the loop of lines 302-305; row r of the model is row r-1 of the array
SortedArray(src_raster, admin_raster, geom_ids, pixel_count, n_features, largest_geom, rast_fill) ==
    LET empty == FilledArray(n_features, largest_geom, rast_fill)
    IN  [r \in 1..n_features |->
            IF \E k \in DOMAIN geom_ids : ToInt(geom_ids[k]) = r - 1
            THEN LET k == CHOOSE k \in DOMAIN geom_ids :
                              ToInt(geom_ids[k]) = r - 1
                 IN  ScatterRow(empty[r], pixel_count[k],
                         MaskedValues(src_raster, admin_raster, geom_ids[k]))
            ELSE empty[r]]

NanSum(row) == Num(SumSeq(RowVals(row)))

NanMean(row) == Frac(SumSeq(RowVals(row)), Len(RowVals(row)))

NanMax(row) == IF RowVals(row) = <<>> THEN NaN ELSE Num(MaxSeq(RowVals(row)))

NanMin(row) == IF RowVals(row) = <<>> THEN NaN ELSE Num(MinSeq(RowVals(row)))

NanMedian(row) ==
    LET s == SortInts(RowVals(row))
        n == Len(s)
    IN  IF n = 0 THEN NaN
        ELSE IF n % 2 = 1 THEN Num(s[(n + 1) \div 2])
        ELSE Frac(s[n \div 2] + s[n \div 2 + 1], 2)

\* np.nanstd, ddof=0, as its square: mean(|x - mean|^2)
NanStd(row) ==
    LET v == RowVals(row)
        n == Len(v)
        sq == [k \in DOMAIN v |-> v[k] * v[k]]
    IN  Frac(n * SumSeq(sq) - SumSeq(v) * SumSeq(v), n * n)

\* np.sum(~np.isnan(x), axis=axis)
NanCount(row) == Len(DropNans(row))

\* len(np.unique(row[~np.isnan(row)]))
NanUnique(row) == Cardinality({RowVals(row)[k] : k \in DOMAIN RowVals(row)})

StatNames == {"mean", "median", "max", "min", "sum", "std", "count", "unique"}

DefaultStats == {"mean", "max", "min", "median", "sum", "std", "count"}

stat_functions(stat, row) ==
    CASE stat = "mean" -> NanMean(row)
      [] stat = "median" -> NanMedian(row)
      [] stat = "max" -> NanMax(row)
      [] stat = "min" -> NanMin(row)
      [] stat = "sum" -> NanSum(row)
      [] stat = "std" -> NanStd(row)
      [] stat = "count" -> NanCount(row)
      [] stat = "unique" -> NanUnique(row)

Raised(kind, what) == [status |-> kind, what |-> what]

Returned(value) == [status |-> "ok", value |-> value]

NotCalled == [status |-> "pending"]

NotRaised == [status |-> "none"]

\* the lowest label never dropped
FillLeads_never(geom_ids, rast_fill) == FALSE

\* lines 293-295: the lowest label is dropped when it equals the fill
FillLeads(geom_ids, rast_fill) == NpEq(geom_ids[1], rast_fill)

\* line 298
NFeatures(n_adms, geom_ids) ==
    IF n_adms # 0 THEN n_adms ELSE ToInt(geom_ids[Len(geom_ids)]) + 1

fast_zonal_stats(src_raster, admin_raster, n_adms, stats, rast_fill) ==
    LET u == NpUnique(DropNans(admin_raster))
    IN  IF u.geom_ids = <<>>
        THEN Raised("IndexError", "geom_ids[0]")
        ELSE
        LET drop == FillLeads(u.geom_ids, rast_fill)
            geom_ids == IF drop THEN Tail(u.geom_ids) ELSE u.geom_ids
            pixel_count == IF drop THEN Tail(u.pixel_count) ELSE u.pixel_count
        IN  IF pixel_count = <<>>
            THEN Raised("ValueError", "pixel_count.max()")
            ELSE
            LET largest_geom == MaxSeq(pixel_count)
                n_features == NFeatures(n_adms, geom_ids)
            IN  IF \E k \in DOMAIN geom_ids : ToInt(geom_ids[k]) >= n_features
                THEN Raised("IndexError", "sorted_array[int(geom_i)]")
                ELSE
                LET sorted_array == SortedArray(src_raster, admin_raster,
                        geom_ids, pixel_count, n_features, largest_geom,
                        rast_fill)
                IN  Returned([i \in 1..n_features |->
                        [stat \in stats \cap StatNames |->
                            stat_functions(stat, sorted_array[i])]])

-----------------------------------------------------------------------------
(* Calendar dates: <<year, month, day>>, the value of a 'YYYY-MM-DD' string
   or of a datetime at midnight *)

DateLe(a, b) ==
    \/ a[1] < b[1]
    \/ a[1] = b[1] /\ a[2] < b[2]
    \/ a[1] = b[1] /\ a[2] = b[2] /\ a[3] <= b[3]

DateLt(a, b) == DateLe(a, b) /\ a # b

IsLeap(y) == (y % 4 = 0 /\ y % 100 # 0) \/ y % 400 = 0

\* calendar.monthrange(y, m)[1]
DaysInMonth(y, m) ==
    IF m = 2 THEN (IF IsLeap(y) THEN 29 ELSE 28)
    ELSE IF m \in {4, 6, 9, 11} THEN 30 ELSE 31

\* relativedelta(months=k) after _fix(): years and months of one sign,
\* abs(months) <= 11
RelDelta(k) ==
    LET s == IF k < 0 THEN -1 ELSE 1
    IN  [years |-> s * (Abs(k) \div 12), months |-> s * (Abs(k) % 12)]

\* dt + relativedelta: the month moves, the day is clipped to the month
AddRelDelta(dt, rd) ==
    LET y0 == dt[1] + rd.years
        m0 == dt[2] + rd.months
        y == IF m0 > 12 THEN y0 + 1 ELSE IF m0 < 1 THEN y0 - 1 ELSE y0
        m == IF m0 > 12 THEN m0 - 12 ELSE IF m0 < 1 THEN m0 + 12 ELSE m0
        last == DaysInMonth(y, m)
    IN  <<y, m, IF dt[3] < last THEN dt[3] ELSE last>>

\* add_months_to_date landing on the first day of the month
add_months_to_date_firstday(date_string, months) ==
    LET moved == AddRelDelta(date_string, RelDelta(months))
    IN  <<moved[1], moved[2], 1>>

\* add_months_to_date(date_string, months)
add_months_to_date(date_string, months) ==
    AddRelDelta(date_string, RelDelta(months))

\* relativedelta(dt1, dt2) for dt1 >= dt2: the whole months from dt2 to dt1,
\* split into years and months
RECURSIVE WholeMonths(_, _, _)
WholeMonths(dt1, dt2, months) ==
    IF DateLt(dt1, AddRelDelta(dt2, RelDelta(months)))
    THEN WholeMonths(dt1, dt2, months - 1)
    ELSE months

RelDeltaBetween(dt1, dt2) ==
    RelDelta(WholeMonths(dt1, dt2,
                         (dt1[1] - dt2[1]) * 12 + (dt1[2] - dt2[2])))

-----------------------------------------------------------------------------
(* validate_stats *)

UpperLetters ==
    {"A", "B", "C", "D", "E", "F", "G", "H", "I", "J", "K", "L", "M",
     "N", "O", "P", "Q", "R", "S", "T", "U", "V", "W", "X", "Y", "Z"}

\* re.compile("^[A-Z]{3}$").search(iso3) on a string given by its characters;
\* "$" also matches before one trailing newline
PatternMatches(iso3) ==
    /\ Len(iso3) \in {3, 4}
    /\ \A k \in 1..3 : iso3[k] \in UpperLetters
    /\ Len(iso3) = 4 => iso3[4] = "\n"

\* CheckMinMax without the min <= max comparison
CheckMinMax_unordered(stats) ==
    IF IsNaN(stats["min"]) \/ IsNaN(stats["max"]) THEN "ok"
    ELSE IF ~IsNaN(stats["mean"])
            /\ ~(Le(stats["min"], stats["mean"])
                 /\ Le(stats["mean"], stats["max"]))
         THEN "mean is not between min and max"
    ELSE IF ~IsNaN(stats["median"])
            /\ ~(Le(stats["min"], stats["median"])
                 /\ Le(stats["median"], stats["max"]))
         THEN "median is not between min and max"
    ELSE "ok"

\* CheckMinMax with the median compared against max alone
CheckMinMax_medianmax(stats) ==
    IF IsNaN(stats["min"]) \/ IsNaN(stats["max"]) THEN "ok"
    ELSE IF ~Le(stats["min"], stats["max"]) THEN "min is not <= max"
    ELSE IF ~IsNaN(stats["mean"])
            /\ ~(Le(stats["min"], stats["mean"])
                 /\ Le(stats["mean"], stats["max"]))
         THEN "mean is not between min and max"
    ELSE IF ~IsNaN(stats["median"])
            /\ ~Le(stats["median"], stats["max"])
         THEN "median is not between min and max"
    ELSE "ok"

\* lines 51-73
CheckMinMax(stats) ==
    IF IsNaN(stats["min"]) \/ IsNaN(stats["max"]) THEN "ok"
    ELSE IF ~Le(stats["min"], stats["max"]) THEN "min is not <= max"
    ELSE IF ~IsNaN(stats["mean"])
            /\ ~(Le(stats["min"], stats["mean"])
                 /\ Le(stats["mean"], stats["max"]))
         THEN "mean is not between min and max"
    ELSE IF ~IsNaN(stats["median"])
            /\ ~(Le(stats["min"], stats["median"])
                 /\ Le(stats["median"], stats["max"]))
         THEN "median is not between min and max"
    ELSE "ok"

\* lines 75-81
CheckStd(stats) ==
    IF IsNaN(stats["std"]) THEN "ok"
    ELSE IF ~Le(Num(0), stats["std"]) THEN "std is not >= 0"
    ELSE "ok"

\* lines 83-86
CheckCount(stats) ==
    IF ~(stats["count"] >= 0) THEN "count is not >= 0" ELSE "ok"

\* lines 88-93
CheckAdmin(iso3, stats) ==
    IF ~(0 <= stats["adm_level"] /\ stats["adm_level"] <= 4)
    THEN "adm_level is not between 0 and 4"
    ELSE IF ~PatternMatches(iso3) THEN "iso3 is not valid"
    ELSE "ok"

\* CheckDates without the comparison of an observational record's valid_date
\* with the current date
CheckDates_nofuture(stats, now) ==
    IF "issued_date" \in DOMAIN stats
    THEN IF ~DateLe(stats["issued_date"], stats["valid_date"])
         THEN "issued_date is not <= valid_date"
         ELSE IF "leadtime" \in DOMAIN stats
         THEN IF ~(0 <= stats["leadtime"] /\ stats["leadtime"] <= 6)
              THEN "leadtime is not between 0 and 6"
              ELSE IF stats["leadtime"] #
                      RelDeltaBetween(stats["valid_date"],
                                      stats["issued_date"]).months
              THEN "leadtime should match the diff"
              ELSE "ok"
         ELSE "ok"
    ELSE "ok"

\* CheckDates without the range check of leadtime
CheckDates_anyleadtime(stats, now) ==
    IF "issued_date" \in DOMAIN stats
    THEN IF ~DateLe(stats["issued_date"], stats["valid_date"])
         THEN "issued_date is not <= valid_date"
         ELSE IF "leadtime" \in DOMAIN stats
         THEN IF stats["leadtime"] #
                      RelDeltaBetween(stats["valid_date"],
                                      stats["issued_date"]).months
              THEN "leadtime should match the diff"
              ELSE "ok"
         ELSE "ok"
    ELSE IF ~DateLe(stats["valid_date"], now)
         THEN "valid_date is not <= current date"
         ELSE "ok"

\* lines 96-122
CheckDates(stats, now) ==
    IF "issued_date" \in DOMAIN stats
    THEN IF ~DateLe(stats["issued_date"], stats["valid_date"])
         THEN "issued_date is not <= valid_date"
         ELSE IF "leadtime" \in DOMAIN stats
         THEN IF ~(0 <= stats["leadtime"] /\ stats["leadtime"] <= 6)
              THEN "leadtime is not between 0 and 6"
              ELSE IF stats["leadtime"] #
                      RelDeltaBetween(stats["valid_date"],
                                      stats["issued_date"]).months
              THEN "leadtime should match the diff"
              ELSE "ok"
         ELSE "ok"
    ELSE IF ~DateLe(stats["valid_date"], now)
         THEN "valid_date is not <= current date"
         ELSE "ok"

\* the first check of the sequence that fails
FirstFailure(checks) ==
    LET bad == {k \in DOMAIN checks : checks[k] # "ok"}
    IN  IF bad = {} THEN "ok"
        ELSE checks[CHOOSE k \in bad : \A j \in bad : k <= j]

\* the values the message of a failed check is formatted with
MessageValues(iso3, stats, failed) ==
    CASE failed = "min is not <= max" -> <<stats["min"], stats["max"]>>
      [] failed = "mean is not between min and max" ->
            <<stats["mean"], stats["min"], stats["max"]>>
      [] failed = "median is not between min and max" ->
            <<stats["median"], stats["min"], stats["max"]>>
      [] failed = "std is not >= 0" -> <<stats["std"]>>
      [] failed = "count is not >= 0" -> <<stats["count"]>>
      [] failed = "adm_level is not between 0 and 4" -> <<stats["adm_level"]>>
      [] failed = "iso3 is not valid" -> <<iso3>>
      [] failed = "issued_date is not <= valid_date" ->
            <<stats["issued_date"], stats["valid_date"]>>
      [] failed = "leadtime is not between 0 and 6" -> <<stats["leadtime"]>>
      [] failed = "leadtime should match the diff" ->
            <<stats["leadtime"], stats["issued_date"], stats["valid_date"]>>
      [] failed = "valid_date is not <= current date" ->
            <<stats["valid_date"]>>

validate_stats(iso3, stats, now) ==
    LET failed == FirstFailure(<<CheckMinMax(stats), CheckStd(stats),
                                 CheckCount(stats), CheckAdmin(iso3, stats),
                                 CheckDates(stats, now)>>)
    IN  IF failed = "ok" THEN Returned(stats)
        ELSE [status |-> "ValueError", what |-> failed,
              values |-> MessageValues(iso3, stats, failed)]

-----------------------------------------------------------------------------
(* The dataset table: create_dataset_table, postgres_upsert and
   DataFrame.to_sql(..., method=postgres_upsert).  A table is the set of its
   rows; a row is a record of its columns. *)

\* lines 63-123: the columns of the table and of its unique constraint.
\* The constraint is built (lines 79-83) from the list of line 77 as it is
\* then; the appends of line 116 come after and do not reach it.
create_dataset_table(is_forecast, extra_dims) ==
    LET unique_constraint_columns == <<"valid_date", "pcode">>
        constraint == unique_constraint_columns
        appended == unique_constraint_columns \o extra_dims
    IN  [columns |-> <<"iso3", "pcode", "valid_date">>
                     \o (IF is_forecast THEN <<"issued_date">> ELSE <<>>)
                     \o extra_dims
                     \o <<"adm_level", "mean", "median", "min", "max",
                          "count", "sum", "std">>,
         unique_constraint_columns |-> appended,
         unique |-> constraint]

\* the values of a row in the columns of the constraint
KeyOf(key, row) == [k \in DOMAIN key |-> row[key[k]]]

\* two rows of one INSERT fall on the same constrained values
HasDuplicateKey(key, data) ==
    \E i, j \in DOMAIN data :
        i < j /\ KeyOf(key, data[i]) = KeyOf(key, data[j])

\* lines 284-293: INSERT ... VALUES data ON CONFLICT ON CONSTRAINT key
\* DO UPDATE SET every column = excluded.  PostgreSQL refuses a command
\* that would touch one row twice.
postgres_upsert(table, key, data) ==
    IF HasDuplicateKey(key, data)
    THEN Raised("CardinalityViolation",
                "ON CONFLICT DO UPDATE command cannot affect row a second time")
    ELSE Returned({row \in table :
                      \A i \in DOMAIN data :
                          KeyOf(key, row) # KeyOf(key, data[i])}
                  \cup {data[i] : i \in DOMAIN data})

\* the rows of the chunk that starts at position start
ChunkAt(frame, start, chunksize) ==
    SubSeq(frame, start,
           IF start + chunksize - 1 < Len(frame) THEN start + chunksize - 1
           ELSE Len(frame))

\* to_sql by one writer alone: one transaction, one upsert per chunk, rolled
\* back as a whole when an upsert raises
RECURSIVE ToSqlFrom(_, _, _, _, _)
ToSqlFrom(table, key, frame, chunksize, start) ==
    IF start > Len(frame) THEN Returned(table)
    ELSE LET done == postgres_upsert(table, key,
                                     ChunkAt(frame, start, chunksize))
         IN  IF done.status # "ok" THEN done
             ELSE ToSqlFrom(done.value, key, frame, chunksize,
                            start + chunksize)

to_sql(table, key, frame, chunksize) ==
    ToSqlFrom(table, key, frame, chunksize, 1)

-----------------------------------------------------------------------------
(* rasterize_admin *)

\* gdf["geometry"].simplify(tolerance=0.001, preserve_topology=True): the
\* vertices closer than the tolerance to the simplified outline go; the
\* pixel centres inside the geometry stay the same
Simplify(geometry) == [geometry EXCEPT !.detail = FALSE]

\* gdf.reset_index()["index"]: the labels of the row index, in row order
ResetIndexColumn(frame) == [k \in DOMAIN frame |-> frame[k].index]

\* rasterio's rasterize(shapes, out_shape, fill): a cell whose centre lies in
\* a shape takes the shape's value, the last such shape winning
Rasterize(shapes, n_cells, fill) ==
    [c \in 1..n_cells |->
        LET over == {k \in DOMAIN shapes : c \in shapes[k][1].cells}
        IN  IF over = {} THEN fill
            ELSE Num(shapes[CHOOSE k \in over : \A j \in over : j <= k][2])]

\* lines 488-502; the frame is returned too, for it is changed in place
rasterize_admin(frame, n_cells, rast_fill) ==
    LET simplified == [k \in DOMAIN frame |->
            [frame[k] EXCEPT !.geometry = Simplify(frame[k].geometry)]]
        burn == ResetIndexColumn(simplified)
        geometries == [k \in DOMAIN frame |->
            <<simplified[k].geometry, burn[k]>>]
    IN  [gdf |-> simplified,
         admin_raster |-> Rasterize(geometries, n_cells, rast_fill)]

-----------------------------------------------------------------------------
(* fast_zonal_stats_runner *)

Range(s) == {s[k] : k \in DOMAIN s}

RequiredDims == {"x", "y", "date"}

\* validate_dimensions that never raises: a grid lacking a required axis is
\* treated as a 3-D grid
validate_dimensions_lenient(dims) ==
    LET extra == SelectSeq(dims, LAMBDA dim : dim \notin RequiredDims)
    IN  Returned(IF extra = <<>> THEN "None" ELSE Head(extra))

\* lines 22-34; "None" stands for None
validate_dimensions(dims) ==
    IF RequiredDims \ Range(dims) # {}
    THEN Raised("ValueError", [message |-> "Dataset missing required dimensions",
                               missing_dims |-> RequiredDims \ Range(dims)])
    ELSE LET extra == SelectSeq(dims, LAMBDA dim : dim \notin RequiredDims)
         IN  Returned(IF extra = <<>> THEN "None" ELSE Head(extra))

FourthDim == validate_dimensions(r_ds.dims).value

\* the day the run happens on (datetime.now() in validate_stats)
Today == <<2025, 6, 1>>

\* the rast_fill the runner is called with (its default)
RunnerFill == NaN

\* np.all(np.isnan(ds__.values)) on a slice with one nan cell at least
AnyNaN(slice) == \E c \in DOMAIN slice : IsNaN(slice[c])

\* bool(np.all(np.isnan(ds__.values)))
AllNaN(slice) == \A c \in DOMAIN slice : IsNaN(slice[c])

\* adm_ids[i] on the pcode column: the row whose index label is i
AdmIdsHas(i) == \E k \in DOMAIN r_gdf : r_gdf[k].index = i

AdmIds(i) == r_gdf[CHOOSE k \in DOMAIN r_gdf : r_gdf[k].index = i].pcode

\* lines 208-216 and 228-230: the keys put on result i of a slice
Keyed(result, i, date, val) ==
    LET base == result @@ ("valid_date" :> date) @@ ("pcode" :> AdmIds(i))
                       @@ ("adm_level" :> r_adm_level)
    IN  IF FourthDim = "None" THEN base
        ELSE IF FourthDim = "leadtime"
        THEN base @@ ("issued_date" :> add_months_to_date(date, -val))
                  @@ ("leadtime" :> val)
        ELSE base @@ (FourthDim :> val)

\* KeyFailure without the call of validate_stats
KeyFailure_unvalidated(result, i, date, val) ==
    IF FourthDim = "leadtime" /\ r_ds.date_type # "str"
    THEN Raised("TypeError", "strptime() argument 1 must be str")
    ELSE IF ~AdmIdsHas(i) THEN Raised("KeyError", "adm_ids[i]")
    ELSE NotRaised

\* what stops the loop over the results at result i, if anything
KeyFailure(result, i, date, val) ==
    IF FourthDim = "leadtime" /\ r_ds.date_type # "str"
    THEN Raised("TypeError", "strptime() argument 1 must be str")
    ELSE IF ~AdmIdsHas(i) THEN Raised("KeyError", "adm_ids[i]")
    ELSE LET checked == validate_stats(r_iso3, Keyed(result, i, date, val),
                                       Today)
         IN  IF checked.status = "ok" THEN NotRaised ELSE checked

\* lines 207-217 and 227-231 for the results of one slice
KeyedResults(results, date, val) ==
    LET failure == [k \in DOMAIN results |->
                       KeyFailure(results[k], k - 1, date, val)]
        bad == {k \in DOMAIN results : failure[k] # NotRaised}
    IN  IF bad # {}
        THEN failure[CHOOSE k \in bad : \A j \in bad : k <= j]
        ELSE Returned([k \in DOMAIN results |->
                          Keyed(results[k], k - 1, date, val)])

\* ReducerArgs with the polygon count left out (n_adms=None), so that the
\* reducer would size its output from the labels of each slice
ReducerArgs_nocount(slice) ==
    [fn |-> "fast_zonal_stats", src_raster |-> slice,
     admin_raster |-> r_admin_raster, n_adms |-> 0]

\* lines 200-206 and 220-226: what the reducer is called with on a slice;
\* admin_raster and n_adms are the locals of lines 184-188
ReducerArgs(slice) ==
    [fn |-> "fast_zonal_stats", src_raster |-> slice,
     admin_raster |-> r_admin_raster, n_adms |-> Len(r_gdf)]

\* SliceRecords reducing the first slice of the grid whatever slice it is
\* called for
SliceRecords_firstslice(slice, date, val) ==
    LET args == ReducerArgs(r_ds.data[1][1])
        results == fast_zonal_stats(args.src_raster, args.admin_raster,
                                    args.n_adms, DefaultStats, RunnerFill)
    IN  IF results.status # "ok" THEN results
        ELSE KeyedResults(results.value, date, val)

\* the reducer and the key loop on one slice
SliceRecords(slice, date, val) ==
    LET args == ReducerArgs(slice)
        results == fast_zonal_stats(args.src_raster, args.admin_raster,
                                    args.n_adms, DefaultStats, RunnerFill)
    IN  IF results.status # "ok" THEN results
        ELSE KeyedResults(results.value, date, val)

\* lines 177-187
RasterizeAdmin ==
    /\ r_pc = "start"
    /\ IF validate_dimensions(r_ds.dims).status # "ok"
       THEN /\ r_pc' = "raised"
            /\ r_ret' = validate_dimensions(r_ds.dims)
            /\ UNCHANGED <<r_gdf, r_admin_raster, r_date_i, r_val_i, r_calls>>
       ELSE LET r == rasterize_admin(r_gdf, GridCells, NaN)
            IN  /\ r_gdf' = r.gdf
                /\ r_admin_raster' = r.admin_raster
                /\ r_calls' = Append(r_calls,
                       [fn |-> "rasterize_admin",
                        admin_raster |-> r.admin_raster])
                /\ r_pc' = "dates"
                /\ r_date_i' = 1
                /\ r_val_i' = 1
                /\ UNCHANGED r_ret
    /\ UNCHANGED <<r_ds, r_adm_level, r_iso3, r_outputs, r_save, r_args, vars_fz, vars_v, vars_db,
                   vars_pc,
                   vars_cog, vars_gd,
                   vars_nm>>

\* ProcessDate3D with the all-nan skip of the 4-D loop
ProcessDate3D_skipnan ==
    /\ r_pc = "dates"
    /\ FourthDim = "None"
    /\ r_date_i <= Len(r_ds.date)
    /\ IF AllNaN(r_ds.data[r_date_i][1])
       THEN /\ r_date_i' = r_date_i + 1
            /\ UNCHANGED <<r_outputs, r_pc, r_ret, r_calls>>
       ELSE /\ r_calls' = Append(r_calls, ReducerArgs(r_ds.data[r_date_i][1]))
            /\ LET records == SliceRecords(r_ds.data[r_date_i][1],
                                           r_ds.date[r_date_i], 0)
               IN  IF records.status = "ok"
                   THEN /\ r_outputs' = r_outputs \o records.value
                        /\ r_date_i' = r_date_i + 1
                        /\ UNCHANGED <<r_pc, r_ret>>
                   ELSE /\ r_pc' = "raised"
                        /\ r_ret' = records
                        /\ UNCHANGED <<r_outputs, r_date_i>>
    /\ UNCHANGED <<r_ds, r_gdf, r_adm_level, r_iso3, r_admin_raster, r_val_i,
                   r_save, r_args, vars_fz, vars_v, vars_db,
                   vars_pc,
                   vars_cog, vars_gd,
                   vars_nm>>

\* lines 219-232: one date of a 3-D grid
ProcessDate3D ==
    /\ r_pc = "dates"
    /\ FourthDim = "None"
    /\ r_date_i <= Len(r_ds.date)
    /\ r_calls' = Append(r_calls, ReducerArgs(r_ds.data[r_date_i][1]))
    /\ LET records == SliceRecords(r_ds.data[r_date_i][1], r_ds.date[r_date_i], 0)
       IN  IF records.status = "ok"
           THEN /\ r_outputs' = r_outputs \o records.value
                /\ r_date_i' = r_date_i + 1
                /\ UNCHANGED <<r_pc, r_ret>>
           ELSE /\ r_pc' = "raised"
                /\ r_ret' = records
                /\ UNCHANGED <<r_outputs, r_date_i>>
    /\ UNCHANGED <<r_ds, r_gdf, r_adm_level, r_iso3, r_admin_raster, r_val_i,
                   r_save, r_args, vars_fz, vars_v, vars_db,
                   vars_pc,
                   vars_cog, vars_gd,
                   vars_nm>>

\* the loops of lines 190 and 195 move on
NextSlice ==
    IF r_val_i < Len(r_ds.fourth)
    THEN r_val_i' = r_val_i + 1 /\ r_date_i' = r_date_i
    ELSE r_val_i' = 1 /\ r_date_i' = r_date_i + 1

\* lines 196-199: a slice that is all nan is skipped
SkipSlice4D ==
    /\ r_pc = "dates"
    /\ FourthDim # "None"
    /\ r_date_i <= Len(r_ds.date)
    /\ AllNaN(r_ds.data[r_date_i][r_val_i])
    /\ NextSlice
    /\ UNCHANGED <<r_ds, r_gdf, r_adm_level, r_iso3, r_pc, r_admin_raster, r_outputs, r_ret,
                   r_save, r_args, r_calls, vars_fz, vars_v, vars_db,
                   vars_pc,
                   vars_cog, vars_gd,
                   vars_nm>>

\* lines 196-218: one slice of a 4-D grid
ProcessSlice4D ==
    /\ r_pc = "dates"
    /\ FourthDim # "None"
    /\ r_date_i <= Len(r_ds.date)
    /\ ~AllNaN(r_ds.data[r_date_i][r_val_i])
    /\ r_calls' = Append(r_calls, ReducerArgs(r_ds.data[r_date_i][r_val_i]))
    /\ LET records == SliceRecords(r_ds.data[r_date_i][r_val_i], r_ds.date[r_date_i],
                                   r_ds.fourth[r_val_i])
       IN  IF records.status = "ok"
           THEN /\ r_outputs' = r_outputs \o records.value
                /\ NextSlice
                /\ UNCHANGED <<r_pc, r_ret>>
           ELSE /\ r_pc' = "raised"
                /\ r_ret' = records
                /\ UNCHANGED <<r_outputs, r_date_i, r_val_i>>
    /\ UNCHANGED <<r_ds, r_gdf, r_adm_level, r_iso3, r_admin_raster, r_save, r_args, vars_fz, vars_v, vars_db,
                   vars_pc,
                   vars_cog, vars_gd,
                   vars_nm>>

\* lines 234-235: pd.DataFrame(outputs) with the iso3 column
DataFrame(records) ==
    [k \in DOMAIN records |-> records[k] @@ ("iso3" :> r_iso3)]

\* save_to_database, engine and dataset of a call; "None" stands for None
SaveInputs ==
    {[save_to_database |-> FALSE, engine |-> "None", dataset |-> "dataset"],
     [save_to_database |-> TRUE, engine |-> "engine", dataset |-> "dataset"],
     [save_to_database |-> TRUE, engine |-> "None", dataset |-> "dataset"],
     [save_to_database |-> TRUE, engine |-> "engine", dataset |-> "None"]}

\* the bare return of line 249
ReturnedNone == [status |-> "ok", none |-> TRUE]

\* chunksize of the to_sql of line 246
RunnerChunkSize == 100000

\* lines 234-250: the table is saved when save_to_database, engine and
\* dataset are all truthy, and returned otherwise
ReturnTable ==
    /\ r_pc = "dates"
    /\ r_date_i > Len(r_ds.date)
    /\ \E save \in SaveInputs :
          /\ r_save' = save
          /\ IF /\ save.save_to_database
                /\ save.engine # "None"
                /\ save.dataset # "None"
             THEN LET written == to_sql(db_table, db_schema.unique,
                                        DataFrame(r_outputs), RunnerChunkSize)
                  IN  IF written.status = "ok"
                      THEN /\ db_table' = written.value
                           /\ r_pc' = "returned"
                           /\ r_ret' = ReturnedNone
                      ELSE /\ r_pc' = "raised"
                           /\ r_ret' = written
                           /\ UNCHANGED db_table
             ELSE /\ r_pc' = "returned"
                  /\ r_ret' = Returned(DataFrame(r_outputs))
                  /\ UNCHANGED db_table
    /\ UNCHANGED <<r_ds, r_gdf, r_adm_level, r_iso3, r_admin_raster, r_date_i,
                   r_val_i, r_outputs, r_args, r_calls, db_schema, db_w,
                   db_commits,
                   vars_fz, vars_v, vars_pc, vars_cog, vars_gd,
                   vars_nm>>

-----------------------------------------------------------------------------
(* One call of the reducer on inputs drawn from bounded sets *)

\* sample values of a source raster cell
SrcValues == {NaN, Num(1), Num(3)}

\* label values of an admin raster cell
LabelValues == {NaN} \cup {Num(i) : i \in 0..(MaxAdm - 1)}

Rasters(values) == [1..NPix -> values]

\* no reducer call is modelled
FzIdle ==
    /\ fz_src = <<>>
    /\ fz_admin = <<>>
    /\ fz_n_adms = 0
    /\ fz_fill = NaN
    /\ fz_result = [status |-> "idle"]

\* no validator call is modelled
ValIdle ==
    /\ v_iso3 = <<>>
    /\ v_stats = <<>>
    /\ v_now = <<>>
    /\ v_result = [status |-> "idle"]

\* no table and no writer is modelled
DbIdle ==
    /\ db_schema = <<>>
    /\ db_table = {}
    /\ db_w = <<>>
    /\ db_commits = <<>>

\* no run of the runner is modelled
RunIdle ==
    /\ r_ds = <<>>
    /\ r_gdf = <<>>
    /\ r_adm_level = 0
    /\ r_iso3 = <<>>
    /\ r_pc = "idle"
    /\ r_admin_raster = <<>>
    /\ r_date_i = 0
    /\ r_val_i = 0
    /\ r_outputs = <<>>
    /\ r_ret = [status |-> "idle"]
    /\ r_save = <<>>
    /\ r_args = <<>>
    /\ r_calls = <<>>

\* no run of process_chunk is modelled
ChunkIdle ==
    /\ pc_df_iso3s = <<>>
    /\ pc_chunksize = 0
    /\ pc_row = 0
    /\ pc_at = "idle"
    /\ pc_adm_level = "unbound"
    /\ pc_all_results = <<>>
    /\ pc_qa = <<>>
    /\ pc_exc = [status |-> "idle"]

\* no COG processor call is modelled
CogIdle ==
    /\ g_dataset = ""
    /\ g_cog_name = <<>>
    /\ g_attrs = <<>>
    /\ g_result = [status |-> "idle"]

\* no call of generate_date_series is modelled
DateIdle ==
    /\ gd_start_date = <<>>
    /\ gd_end_date = <<>>
    /\ gd_frequency = ""
    /\ gd_missing_dates = <<>>
    /\ gd_chunk_size = 0
    /\ gd_result = [status |-> "idle"]

\* no row is reduced
MeanIdle ==
    /\ nm_row = <<>>
    /\ nm_result = [status |-> "idle"]

ReducerInit ==
    /\ ValIdle
    /\ RunIdle
    /\ DbIdle
    /\ ChunkIdle
    /\ CogIdle
    /\ DateIdle
    /\ MeanIdle
    /\ fz_src \in Rasters(SrcValues)
    /\ fz_admin \in Rasters(LabelValues)
    /\ fz_n_adms \in 0..MaxAdm
    /\ fz_fill \in {NaN, Num(0)}
    /\ fz_result = NotCalled

CallFastZonalStats ==
    /\ fz_result = NotCalled
    /\ fz_result' = fast_zonal_stats(fz_src, fz_admin, fz_n_adms,
                                     DefaultStats, fz_fill)
    /\ UNCHANGED <<fz_src, fz_admin, fz_n_adms, fz_fill, vars_v, vars_run, vars_db,
                   vars_pc, vars_cog, vars_gd,
                   vars_nm>>

ReducerNext == CallFastZonalStats

ReducerSpec == ReducerInit /\ [][ReducerNext]_vars

-----------------------------------------------------------------------------
(* One call of the validator on records drawn from bounded sets *)

TST == <<"T", "S", "T">>

\* an iso3 code, one in lower case, one followed by a line feed
Iso3Inputs == {TST, <<"t", "s", "t">>, TST \o <<"\n">>}

\* the fields every record carries
StatFields ==
    [min : {NaN, Num(2)},
     max : {NaN, Num(1), Num(3)},
     mean : {NaN, Num(1), Num(2), Num(4)},
     median : {NaN, Num(1), Num(2), Num(4)},
     std : {NaN, Num(-1), Num(0)},
     count : {-1, 0},
     adm_level : {-1, 4, 5}]

ValidDates == {<<2024, 3, 30>>, <<2025, 2, 1>>}

IssuedDates == {<<2024, 1, 1>>, <<2024, 1, 31>>, <<2024, 4, 1>>}

\* the day the validator runs on; only an observational record reads it
NowDates == {<<2024, 12, 31>>, Today}

\* an observational record: no issued_date
Observational(f, valid_date) == f @@ ("valid_date" :> valid_date)

\* a forecast record
Forecast(f, valid_date, issued_date, leadtime) ==
    f @@ ("valid_date" :> valid_date) @@ ("issued_date" :> issued_date)
      @@ ("leadtime" :> leadtime)

ValidatorInit ==
    /\ FzIdle
    /\ RunIdle
    /\ DbIdle
    /\ ChunkIdle
    /\ CogIdle
    /\ DateIdle
    /\ MeanIdle
    /\ v_iso3 \in Iso3Inputs
    /\ \/ /\ v_now \in NowDates
          /\ v_stats \in
                {Observational(f, d) : f \in StatFields, d \in ValidDates}
       \/ /\ v_now = Today
          /\ v_stats \in
                {Forecast(f, d, i, l) : f \in StatFields, d \in ValidDates,
                    i \in IssuedDates, l \in -1..MaxLeadtimeIn}
    /\ v_result = NotCalled

CallValidateStats ==
    /\ v_result = NotCalled
    /\ v_result' = validate_stats(v_iso3, v_stats, v_now)
    /\ UNCHANGED <<v_iso3, v_stats, v_now, vars_fz, vars_run, vars_db,
                   vars_pc, vars_cog, vars_gd,
                   vars_nm>>

ValidatorNext == CallValidateStats

ValidatorSpec == ValidatorInit /\ [][ValidatorNext]_vars

-----------------------------------------------------------------------------
(* One run of the runner on grids and polygon collections drawn from
   bounded sets *)

Cells == 1..GridCells

\* a spatial slice: all nan, the samples base+1, base+2, ... in cell order
\* (the fixture's 1..16, 17..32), or those with the first cell nan
MakeSlice(kind, base) ==
    [c \in Cells |->
        IF kind = "nan" \/ (kind = "holed" /\ c = 1) THEN NaN
        ELSE Num(base + c)]

SliceKinds == {"nan", "ramp", "holed"}

Grid(dims, date_type, dates, fourth, kinds) ==
    [dims |-> dims, date_type |-> date_type, date |-> dates,
     fourth |-> fourth,
     data |-> [d \in DOMAIN dates |-> [l \in DOMAIN kinds[d] |->
         MakeSlice(kinds[d][l],
                   ((d - 1) * Len(kinds[d]) + (l - 1)) * GridCells)]]]

D1 == <<2024, 1, 1>>
D2 == <<2024, 3, 31>>
DFuture == <<2025, 7, 1>>

Kinds(n_dates, n_vals) == [1..n_dates -> [1..n_vals -> SliceKinds]]

Grids3D ==
    {Grid(<<"date", "y", "x">>, t, dates, <<>>, k) :
        t \in {"str", "datetime64"},
        dates \in {<<D1>>, <<D1, D2>>},
        k \in Kinds(2, 1)}
    \cup {Grid(<<"date", "y", "x">>, "str", <<D2, DFuture>>, <<>>, k) :
        k \in Kinds(2, 1)}

\* the grids of two dates hold all-nan and full slices only; a slice with
\* one nan cell is in the grids of one date
GridsLeadtime ==
    {Grid(<<"date", "leadtime", "y", "x">>, "str", <<D1>>, <<0, 1>>, k) :
        k \in Kinds(1, 2)}
    \cup {Grid(<<"date", "leadtime", "y", "x">>, "str", <<D1, D2>>, <<0, 1>>, k) :
        k \in [1..2 -> [1..2 -> {"nan", "ramp"}]]}
    \cup {Grid(<<"date", "leadtime", "y", "x">>, "str", <<DFuture>>,
               <<6, 7>>, k) : k \in Kinds(1, 2)}
    \cup {Grid(<<"date", "leadtime", "y", "x">>, "datetime64", <<D1>>,
               <<0, 1>>, k) : k \in Kinds(1, 2)}
    \cup {Grid(<<"date", "leadtime", "y", "x">>, "str", <<D2>>, leadtimes, k) :
            leadtimes \in {<<3, 5>>, <<6, 7>>}, k \in Kinds(1, 2)}

GridsBand ==
    {Grid(<<"date", "band", "y", "x">>, "str", <<D1>>, <<"SFED", "MFED">>, k) :
        k \in Kinds(1, 2)}

\* grids that lack a required axis
GridsNoDate ==
    {Grid(<<"y", "x">>, "str", <<>>, <<>>, <<>>),
     Grid(<<"leadtime", "y", "x">>, "str", <<>>, <<0, 1>>, <<>>),
     Grid(<<"date", "y">>, "str", <<D1>>, <<>>, <<<<"ramp">>>>)}

GridInputs == Grids3D \cup GridsLeadtime \cup GridsBand \cup GridsNoDate

\* row indexes of a frame of n rows: the default RangeIndex, the index of a
\* frame sorted in reverse, the index left after the first row of a longer
\* frame was dropped
IndexInputs(n) ==
    {[k \in 1..n |-> k - 1], [k \in 1..n |-> n - k], [k \in 1..n |-> k]}

Pcode(k) == <<"P", k>>

\* a frame of n polygons that do not overlap: owner[c] is the polygon whose
\* geometry holds the centre of cell c, 0 for none
\* detail: the outline has vertices that simplify() removes
Frame(n, index, owner, detail) ==
    [k \in 1..n |->
        [index |-> index[k], pcode |-> Pcode(k),
         geometry |-> [cells |-> {c \in Cells : owner[c] = k},
                       detail |-> detail]]]

GdfInputs ==
    UNION {{Frame(n, index, owner, FALSE) :
                index \in IndexInputs(n), owner \in [Cells -> 0..n]} :
           n \in 1..MaxAdm}

\* collections of one polygon with an outline finer than the tolerance
GdfDetailed ==
    {Frame(1, index, owner, TRUE) :
        index \in IndexInputs(1), owner \in [Cells -> 0..1]}

AdmLevelInputs == {1, 5}

\* gdf and adm_level of a call: every collection at a level the validator
\* accepts, the collections of one polygon also at one it rejects
CallInputs ==
    ((GdfInputs \cup GdfDetailed) \X {1})
    \cup ({g \in GdfInputs : Len(g) = 1} \X (AdmLevelInputs \ {1}))

\* the table of the dataset the grid is of, as __main__ creates it
\* (run_raster_stats.py lines 167-169)
TableOf(dims) ==
    LET extra == SelectSeq(dims, LAMBDA dim : dim \notin RequiredDims)
    IN  create_dataset_table("leadtime" \in Range(dims), extra)

Init ==
    /\ FzIdle
    /\ ValIdle
    /\ ChunkIdle
    /\ CogIdle
    /\ DateIdle
    /\ MeanIdle
    /\ r_ds \in GridInputs
    /\ \E call \in CallInputs : r_gdf = call[1] /\ r_adm_level = call[2]
    /\ r_args = [ds |-> r_ds, gdf |-> r_gdf]
    /\ r_calls = <<>>
    /\ db_schema = TableOf(r_ds.dims)
    /\ db_table = {}
    /\ db_w = <<>>
    /\ db_commits = <<>>
    /\ r_iso3 = TST
    /\ r_pc = "start"
    /\ r_admin_raster = <<>>
    /\ r_date_i = 0
    /\ r_val_i = 0
    /\ r_outputs = <<>>
    /\ r_ret = NotCalled
    /\ r_save = <<>>

Next ==
    \/ RasterizeAdmin
    \/ ProcessDate3D
    \/ SkipSlice4D
    \/ ProcessSlice4D
    \/ ReturnTable

Spec == Init /\ [][Next]_vars

-----------------------------------------------------------------------------
(* Two writers upserting into one dataset table.  Every to_sql is one
   transaction of one upsert per chunk; a row written in a transaction stays
   locked until the transaction ends, so an upsert on the same constrained
   values by the other writer waits, and two writers waiting for each other
   are a deadlock that ends one of them. *)

Writers == {1, 2}

DbPcodes == {Pcode(1), Pcode(2)}

\* the natural keys of the rows a writer may hold
NaturalKeys(is_forecast) ==
    IF is_forecast
    THEN [valid_date : {D2}, pcode : DbPcodes, leadtime : {0, 1}]
    ELSE [valid_date : {D1, D2}, pcode : DbPcodes]

\* the row writer w holds for a natural key: its statistics carry w
RowOf(natural_key, w) == natural_key @@ ("mean" :> Num(w))

\* the tables a run of the runner may hand to to_sql: up to MaxFrameRows rows
\* of distinct natural keys in any order
Frames(is_forecast, w) ==
    UNION {{[k \in 1..n |-> RowOf(f[k], w)] :
               f \in {g \in [1..n -> NaturalKeys(is_forecast)] :
                         \A i, j \in 1..n : i # j => g[i] # g[j]}} :
           n \in 1..MaxFrameRows}

ChunkSizes == {1, MaxFrameRows}

ExtraDims(is_forecast) == IF is_forecast THEN <<"leadtime">> ELSE <<>>

DbInit ==
    /\ FzIdle
    /\ ValIdle
    /\ RunIdle
    /\ ChunkIdle
    /\ CogIdle
    /\ DateIdle
    /\ MeanIdle
    /\ \E is_forecast \in BOOLEAN, chunksize \in ChunkSizes :
          /\ db_schema = create_dataset_table(is_forecast,
                                              ExtraDims(is_forecast))
          /\ \E f1 \in Frames(is_forecast, 1), f2 \in Frames(is_forecast, 2) :
                db_w = [w \in Writers |->
                           [frame |-> IF w = 1 THEN f1 ELSE f2,
                            chunksize |-> chunksize, next |-> 1,
                            written |-> {}, status |-> "ready",
                            began |-> 0, error |-> NotRaised]]
    /\ db_table = {}
    /\ db_commits = <<>>

NextChunk(w) == ChunkAt(db_w[w].frame, db_w[w].next, db_w[w].chunksize)

KeysOf(rows) == {KeyOf(db_schema.unique, row) : row \in rows}

\* the next upsert of w falls on a row the other writer holds locked
Blocked(w) ==
    /\ db_w[w].status \in {"ready", "writing"}
    /\ db_w[w].next <= Len(db_w[w].frame)
    /\ \E o \in Writers \ {w} :
          /\ db_w[o].status = "writing"
          /\ KeysOf(Range(NextChunk(w))) \cap KeysOf(db_w[o].written) # {}

\* run_raster_stats.py line 116 with database_utils.py lines 284-293: one
\* chunk of the frame goes through postgres_upsert
ExecuteUpsert(w) ==
    /\ db_w[w].status \in {"ready", "writing"}
    /\ db_w[w].next <= Len(db_w[w].frame)
    /\ ~Blocked(w)
    /\ LET done == postgres_upsert(db_w[w].written, db_schema.unique,
                                   NextChunk(w))
           began == IF db_w[w].status = "ready" THEN Len(db_commits)
                    ELSE db_w[w].began
       IN  db_w' = [db_w EXCEPT ![w] =
              IF done.status = "ok"
              THEN [@ EXCEPT !.written = done.value, !.status = "writing",
                             !.next = @ + db_w[w].chunksize, !.began = began]
              ELSE [@ EXCEPT !.written = {}, !.status = "failed",
                             !.began = began, !.error = done]]
    /\ UNCHANGED <<db_schema, db_table, db_commits, vars_fz, vars_v, vars_run,
                   vars_pc, vars_cog, vars_gd,
                   vars_nm>>

\* the transaction of to_sql commits: its rows replace the committed rows of
\* the same constrained values
Commit(w) ==
    /\ db_w[w].status = "writing"
    /\ db_w[w].next > Len(db_w[w].frame)
    /\ db_table' = {row \in db_table :
                       KeyOf(db_schema.unique, row) \notin KeysOf(db_w[w].written)}
                   \cup db_w[w].written
    /\ db_commits' = Append(db_commits,
                            [writer |-> w, size |-> Cardinality(db_table')])
    /\ db_w' = [db_w EXCEPT ![w] = [@ EXCEPT !.written = {},
                                             !.status = "committed"]]
    /\ UNCHANGED <<db_schema, vars_fz, vars_v, vars_run,
                   vars_pc, vars_cog, vars_gd,
                   vars_nm>>

\* both writers wait for each other: the database ends the transaction of w
DeadlockAbort(w) ==
    /\ \A o \in Writers : Blocked(o)
    /\ db_w' = [db_w EXCEPT ![w] =
                   [@ EXCEPT !.written = {}, !.status = "failed",
                             !.error = Raised("DeadlockDetected",
                                              "deadlock detected")]]
    /\ UNCHANGED <<db_schema, db_table, db_commits, vars_fz, vars_v, vars_run,
                   vars_pc, vars_cog, vars_gd,
                   vars_nm>>

DbNext ==
    \E w \in Writers : ExecuteUpsert(w) \/ Commit(w) \/ DeadlockAbort(w)

DbSpec == DbInit /\ [][DbNext]_vars

-----------------------------------------------------------------------------
(* process_chunk (run_raster_stats.py lines 55-135), after stack_cogs has
   returned the grid of the chunk.  What load_shp_from_azure, prep_raster and
   the runner do for a country is given with the country: each either
   returns or raises. *)

Iso3Of(k) == <<"ISO", k>>

\* a row of df_iso3s with what its processing will meet: levels[l + 1] is
\* what the runner does at adm_level l
Country(k, covered, shp, prep, levels) ==
    [iso3 |-> Iso3Of(k), max_adm_level |-> Len(levels) - 1,
     covered |-> covered, shp |-> shp, prep |-> prep, levels |-> levels]

LevelOutcomes ==
    UNION {[1..n -> {"ok", "ValueError"}] : n \in 1..(MaxAdmLevel + 1)}

\* the countries that can stand at row k: not covered by the dataset, its
\* shapefile missing, its raster not preparable, or any run of its levels
CountryInputs(k) ==
    {Country(k, FALSE, "ok", "ok", <<"ok">>),
     Country(k, TRUE, "ResourceNotFoundError", "ok", <<"ok">>),
     Country(k, TRUE, "ok", "NoDataInBounds", <<"ok">>)}
    \cup {Country(k, TRUE, "ok", "ok", levels) : levels \in LevelOutcomes}

DatasetIsForecast == "leadtime" \in Range(db_schema.columns)

\* the table the runner returns for one unit: one polygon, one date, and
\* for a forecast dataset the leadtimes 0 and 1 of that date
UnitRows(iso3, adm_level) ==
    LET base == [iso3 |-> iso3, adm_level |-> adm_level,
                 pcode |-> <<iso3, adm_level>>, mean |-> Num(1)]
    IN  IF DatasetIsForecast
        THEN <<base @@ ("valid_date" :> D2) @@ ("leadtime" :> 0),
               base @@ ("valid_date" :> D2) @@ ("leadtime" :> 1)>>
        ELSE <<base @@ ("valid_date" :> D1)>>

\* insert_qa_table inserting nothing
insert_qa_table_norow(qa, iso3, adm_level, dataset, error) == qa

\* database_utils.py lines 222-259
insert_qa_table(qa, iso3, adm_level, dataset, error) ==
    Append(qa, [iso3 |-> iso3, adm_level |-> adm_level, dataset |-> dataset,
                error |-> error.what, stack_trace |-> error.status])

RECURSIVE Concat(_)
Concat(frames) ==
    IF frames = <<>> THEN <<>> ELSE Head(frames) \o Concat(Tail(frames))

ChunkInit ==
    /\ FzIdle
    /\ ValIdle
    /\ RunIdle
    /\ CogIdle
    /\ DateIdle
    /\ MeanIdle
    /\ \E is_forecast \in BOOLEAN :
          db_schema = create_dataset_table(is_forecast, ExtraDims(is_forecast))
    /\ db_table = {}
    /\ db_w = <<>>
    /\ db_commits = <<>>
    /\ \E n \in 1..MaxCountries :
          pc_df_iso3s \in {c \in [1..n -> UNION {CountryInputs(k) : k \in 1..n}] :
                                \A k \in 1..n : c[k] \in CountryInputs(k)}
    /\ pc_chunksize \in ChunkSizes
    /\ pc_row = 1
    /\ pc_at = "country"
    /\ pc_adm_level = "unbound"
    /\ pc_all_results = <<>>
    /\ pc_qa = <<>>
    /\ pc_exc = NotRaised

ThisCountry == pc_df_iso3s[pc_row]

\* lines 69-94: the next row of df_iso3s up to the start of its levels
NextCountry ==
    /\ pc_at = "country"
    /\ pc_row <= Len(pc_df_iso3s)
    /\ IF ~ThisCountry.covered
       THEN /\ pc_row' = pc_row + 1
            /\ UNCHANGED <<pc_at, pc_all_results, pc_qa, pc_exc>>
       ELSE IF ThisCountry.shp # "ok"
       THEN /\ pc_exc' = Raised(ThisCountry.shp, "load_shp_from_azure")
            /\ pc_at' = "disposed"
            /\ UNCHANGED <<pc_row, pc_all_results, pc_qa>>
       ELSE IF ThisCountry.prep # "ok"
       THEN /\ pc_qa' = insert_qa_table(pc_qa, ThisCountry.iso3, "None",
                            "dataset", Raised(ThisCountry.prep, "prep_raster"))
            /\ pc_row' = pc_row + 1
            /\ UNCHANGED <<pc_at, pc_all_results, pc_exc>>
       ELSE /\ pc_at' = "levels"
            /\ pc_all_results' = <<>>
            /\ UNCHANGED <<pc_row, pc_qa, pc_exc>>
    /\ UNCHANGED <<pc_df_iso3s, pc_chunksize, pc_adm_level, vars_db, vars_fz,
                   vars_v, vars_run, vars_cog, vars_gd,
                   vars_nm>>

\* lines 95-111 and 124-130: the runner on the next adm_level; every level
\* done so far has put one table on all_results
ComputeLevel ==
    /\ pc_at = "levels"
    /\ Len(pc_all_results) <= ThisCountry.max_adm_level
    /\ LET adm_level == Len(pc_all_results)
           outcome == ThisCountry.levels[adm_level + 1]
       IN  /\ pc_adm_level' = adm_level
           /\ IF outcome = "ok"
              THEN /\ pc_all_results' =
                         Append(pc_all_results,
                                UnitRows(ThisCountry.iso3, adm_level))
                   /\ UNCHANGED <<pc_row, pc_at, pc_qa>>
              ELSE /\ pc_qa' = insert_qa_table(pc_qa, ThisCountry.iso3,
                                   adm_level, "dataset",
                                   Raised(outcome, "fast_zonal_stats_runner"))
                   /\ pc_row' = pc_row + 1
                   /\ pc_at' = "country"
                   /\ UNCHANGED pc_all_results
    /\ UNCHANGED <<pc_df_iso3s, pc_chunksize, pc_exc, vars_db, vars_fz,
                   vars_v, vars_run, vars_cog, vars_gd,
                   vars_nm>>

\* lines 112-130: the results of all levels are written in one to_sql
WriteCountry ==
    /\ pc_at = "levels"
    /\ Len(pc_all_results) > ThisCountry.max_adm_level
    /\ LET df_all_results == Concat(pc_all_results)
           written == to_sql(db_table, db_schema.unique, df_all_results,
                             pc_chunksize)
       IN  IF written.status = "ok"
           THEN /\ db_table' = written.value
                /\ UNCHANGED pc_qa
           ELSE /\ pc_qa' = insert_qa_table(pc_qa, ThisCountry.iso3,
                                pc_adm_level, "dataset", written)
                /\ UNCHANGED db_table
    /\ pc_row' = pc_row + 1
    /\ pc_at' = "country"
    /\ UNCHANGED <<pc_df_iso3s, pc_chunksize, pc_adm_level, pc_all_results,
                   pc_exc, db_schema, db_w, db_commits, vars_fz, vars_v,
                   vars_run, vars_cog, vars_gd,
                   vars_nm>>

\* lines 134-135: the loop is over
Dispose ==
    /\ pc_at = "country"
    /\ pc_row > Len(pc_df_iso3s)
    /\ pc_at' = "disposed"
    /\ UNCHANGED <<pc_df_iso3s, pc_chunksize, pc_row, pc_adm_level,
                   pc_all_results, pc_qa, pc_exc, vars_db, vars_fz, vars_v,
                   vars_run, vars_cog, vars_gd,
                   vars_nm>>

ChunkNext == NextCountry \/ ComputeLevel \/ WriteCountry \/ Dispose

ChunkSpec == ChunkInit /\ [][ChunkNext]_vars

-----------------------------------------------------------------------------
(* The COG processors (cog_utils.py lines 18-126): one call of the processor
   of a dataset on a COG whose name and attributes are drawn from bounded
   sets.  Strings are sequences of characters. *)

Digits == <<"0", "1", "2", "3", "4", "5", "6", "7", "8", "9">>

\* str(n) of a natural number
RECURSIVE Str(_)
Str(n) ==
    IF n < 10 THEN <<Digits[n + 1]>>
    ELSE Str(n \div 10) \o <<Digits[(n % 10) + 1]>>

\* s.zfill(width)
RECURSIVE zfill(_, _)
zfill(s, width) ==
    IF Len(s) >= width THEN s ELSE zfill(<<"0">> \o s, width)

\* s[start:stop] with negative start and stop, counted from the end and
\* clamped at the beginning of the string
SliceFromEnd(s, start, stop) ==
    LET from == IF Len(s) + start < 0 THEN 0 ELSE Len(s) + start
        to == IF Len(s) + stop < 0 THEN 0 ELSE Len(s) + stop
    IN  SubSeq(s, from + 1, to)

\* da_in.attrs[name]
Attr(attrs, name) ==
    IF name \in DOMAIN attrs THEN Returned(attrs[name])
    ELSE Raised("KeyError", name)

\* f"{year_valid}-{month_valid}-{day}" of lines 69-71, 101-103, 116-119
DateIn(attrs, day) ==
    Str(attrs["year_valid"]) \o <<"-">>
        \o zfill(Str(attrs["month_valid"]), 2) \o <<"-">> \o day

\* lines 18-44: the date is cut out of the name of the file
process_imerg(cog_name, attrs) ==
    Returned([date |-> SliceFromEnd(cog_name, -14, -4)])

\* lines 47-77
process_era5(cog_name, attrs) ==
    IF Attr(attrs, "year_valid").status # "ok" THEN Attr(attrs, "year_valid")
    ELSE IF Attr(attrs, "month_valid").status # "ok"
    THEN Attr(attrs, "month_valid")
    ELSE Returned([date |-> DateIn(attrs, <<"0", "1">>)])

\* lines 80-109
process_seas5(cog_name, attrs) ==
    IF Attr(attrs, "year_valid").status # "ok" THEN Attr(attrs, "year_valid")
    ELSE IF Attr(attrs, "month_valid").status # "ok"
    THEN Attr(attrs, "month_valid")
    ELSE IF Attr(attrs, "leadtime").status # "ok" THEN Attr(attrs, "leadtime")
    ELSE Returned([date |-> DateIn(attrs, <<"0", "1">>),
                   leadtime |-> attrs["leadtime"]])

\* lines 112-126
process_floodscan(cog_name, attrs) ==
    IF Attr(attrs, "year_valid").status # "ok" THEN Attr(attrs, "year_valid")
    ELSE IF Attr(attrs, "month_valid").status # "ok"
    THEN Attr(attrs, "month_valid")
    ELSE IF Attr(attrs, "date_valid").status # "ok"
    THEN Attr(attrs, "date_valid")
    ELSE Returned([date |-> DateIn(attrs, zfill(Str(attrs["date_valid"]), 2))])

\* the dispatch of stack_cogs, lines 184-192
ProcessCog(dataset, cog_name, attrs) ==
    CASE dataset = "era5" -> process_era5(cog_name, attrs)
      [] dataset = "seas5" -> process_seas5(cog_name, attrs)
      [] dataset = "imerg" -> process_imerg(cog_name, attrs)
      [] dataset = "floodscan" -> process_floodscan(cog_name, attrs)

Datasets == {"era5", "seas5", "imerg", "floodscan"}

AttrNames == {"year_valid", "month_valid", "date_valid", "leadtime"}

AttrValues ==
    [year_valid |-> {2020}, month_valid |-> {1, 12}, date_valid |-> {1, 30},
     leadtime |-> {0, 1}]

\* da_in.attrs: any of the attributes may be missing
AttrInputs ==
    UNION {{a \in [names -> UNION {AttrValues[n] : n \in names}] :
                \A n \in names : a[n] \in AttrValues[n]} :
           names \in SUBSET AttrNames}

Tif == <<".", "t", "i", "f">>

\* names of COG blobs, and the name the tests call the processors with
CogNames ==
    {<<"v", "7", "_">> \o <<"2", "0", "2", "0", "-", "0", "1", "-", "0", "1">>
        \o Tif,
     <<"v", "7", "_">> \o <<"2", "0", "2", "0", "-", "1", "2", "-", "3", "0">>
        \o Tif,
     <<"c", "o", "g", "_", "u", "r", "l">>}

CogInit ==
    /\ FzIdle
    /\ ValIdle
    /\ RunIdle
    /\ DbIdle
    /\ ChunkIdle
    /\ DateIdle
    /\ MeanIdle
    /\ g_dataset \in Datasets
    /\ g_cog_name \in CogNames
    /\ g_attrs \in AttrInputs
    /\ g_result = NotCalled

CallProcessor ==
    /\ g_result = NotCalled
    /\ g_result' = ProcessCog(g_dataset, g_cog_name, g_attrs)
    /\ UNCHANGED <<g_dataset, g_cog_name, g_attrs, vars_fz, vars_v, vars_run,
                   vars_db, vars_pc, vars_gd, vars_nm>>

CogNext == CallProcessor

CogSpec == CogInit /\ [][CogNext]_vars

-----------------------------------------------------------------------------
(* generate_date_series (src/src/config/settings.py lines 142-181): one call
   on arguments drawn from bounded sets.  A date is <<year, month, day>>, the
   value of the Timestamp pd.date_range and get_missing_dates give and of the
   datetime parse_date gives; None is the empty tuple. *)

\* largest chunk_size a call is given, next to the default
MaxChunkSize == 3

\* most entries of missing_dates
MaxMissing == 2

\* chunk_size=100 of the signature
DefaultChunkSize == 100

\* the day after date
NextDay(date) ==
    IF date[3] < DaysInMonth(date[1], date[2])
    THEN <<date[1], date[2], date[3] + 1>>
    ELSE IF date[2] < 12 THEN <<date[1], date[2] + 1, 1>>
    ELSE <<date[1] + 1, 1, 1>>

\* the first day of the month after the month of date
NextMonthStart(date) ==
    IF date[2] < 12 THEN <<date[1], date[2] + 1, 1>>
    ELSE <<date[1] + 1, 1, 1>>

RECURSIVE DateRangeFrom(_, _, _)
DateRangeFrom(first, end, freq) ==
    IF ~DateLe(first, end) THEN <<>>
    ELSE <<first>> \o DateRangeFrom(IF freq = "MS" THEN NextMonthStart(first)
                                    ELSE NextDay(first), end, freq)

\* list(pd.date_range(start, end, freq=freq)) for freq "D" and "MS": "MS"
\* gives the month starts that lie in [start, end]
date_range(start, end, freq) ==
    DateRangeFrom(IF freq = "MS" /\ start[3] # 1 THEN NextMonthStart(start)
                  ELSE start, end, freq)

\* the dates of S in ascending order
RECURSIVE SortDates(_)
SortDates(S) ==
    IF S = {} THEN <<>>
    ELSE LET first == CHOOSE date \in S : \A other \in S : DateLe(date, other)
         IN  <<first>> \o SortDates(S \ {first})

\* sorted(list(set(dates))) stored back to front
sorted_set_descending(dates) ==
    LET asc == SortDates({dates[k] : k \in DOMAIN dates})
    IN  [k \in DOMAIN asc |-> asc[Len(asc) + 1 - k]]

\* sorted(list(set(dates)))
sorted_set(dates) == SortDates({dates[k] : k \in DOMAIN dates})

\* [dates[i : i + chunk_size] for i in range(0, len(dates), chunk_size)]
Slices(dates, chunk_size) ==
    [c \in 1..((Len(dates) + chunk_size - 1) \div chunk_size) |->
        SubSeq(dates, (c - 1) * chunk_size + 1,
               IF c * chunk_size < Len(dates) THEN c * chunk_size
               ELSE Len(dates))]

generate_date_series(start_date, end_date, frequency, missing_dates, chunk_size) ==
    LET dates == IF end_date = <<>> THEN <<start_date>>
                 ELSE date_range(start_date, end_date,
                                 IF frequency = "M" THEN "MS" ELSE frequency)
        extended == IF missing_dates # <<>> THEN dates \o missing_dates
                    ELSE dates
    IN  Slices(sorted_set(extended), chunk_size)

StartDates == {<<2024, 1, 30>>, <<2024, 2, 1>>, <<2024, 2, 28>>}

\* None, a date before every start date, dates after them
EndDates == {<<>>, <<2024, 1, 29>>, <<2024, 2, 2>>, <<2024, 3, 1>>}

MissingValues == {<<2024, 1, 28>>, <<2024, 2, 1>>, <<2024, 3, 5>>}

\* missing_dates: None or empty, or up to MaxMissing dates in any order, a
\* date twice included
MissingInputs ==
    UNION {[1..n -> MissingValues] : n \in 0..MaxMissing}

DateInit ==
    /\ FzIdle
    /\ ValIdle
    /\ RunIdle
    /\ DbIdle
    /\ ChunkIdle
    /\ CogIdle
    /\ MeanIdle
    /\ gd_start_date \in StartDates
    /\ gd_end_date \in EndDates
    /\ gd_frequency \in {"D", "M"}
    /\ gd_missing_dates \in MissingInputs
    /\ gd_chunk_size \in (1..MaxChunkSize) \cup {DefaultChunkSize}
    /\ gd_result = NotCalled

GenerateDateSeries ==
    /\ gd_result = NotCalled
    /\ gd_result' = Returned(generate_date_series(gd_start_date, gd_end_date,
                        gd_frequency, gd_missing_dates, gd_chunk_size))
    /\ UNCHANGED <<gd_start_date, gd_end_date, gd_frequency, gd_missing_dates,
                   gd_chunk_size, vars_fz, vars_v, vars_run, vars_db, vars_pc,
                   vars_cog, vars_nm>>

DateNext == GenerateDateSeries

DateSpec == DateInit /\ [][DateNext]_vars

------------------------------------------------------------------------------

(* The reductions of fast_zonal_stats in binary64 (raster_utils.py lines
   299-333): sorted_array is a float64 array, and np.nanmean, np.nanmax and
   np.nanmin work on its rows in IEEE 754 double precision, rounding to
   nearest, ties to even.  A positive float64 is <<m, e>>: m the significand
   as MantissaBits bits, the first one 1, read as a binary whole number, and
   e the power of two it is scaled by; np.nan is the empty tuple.  One call
   reduces one row drawn from a bounded set. *)

\* bits of the significand of a float64 (np.empty's default dtype)
MantissaBits == 53

\* most entries of a row of sorted_array
MaxRowLen == 3

Zeros(n) == [k \in 1..n |-> 0]

\* the four bits of a hexadecimal digit
HexBits(h) == <<h \div 8, (h \div 4) % 2, (h \div 2) % 2, h % 2>>

RECURSIVE BitsOfHex(_)
BitsOfHex(hex) ==
    IF hex = <<>> THEN <<>> ELSE HexBits(Head(hex)) \o BitsOfHex(Tail(hex))

\* float.fromhex("0x1.<hex>p<exp>"), hex of 13 digits
FromHex(hex, exp) == <<<<1>> \o BitsOfHex(hex), exp - (MantissaBits - 1)>>

\* a + b + carry on bit strings of one length: the bits of the sum and the
\* carry out, the low half first
RECURSIVE AddHalves(_, _, _)
AddHalves(a, b, carry) ==
    IF Len(a) = 0 THEN [s |-> <<>>, c |-> carry]
    ELSE IF Len(a) = 1
    THEN [s |-> <<(a[1] + b[1] + carry) % 2>>,
          c |-> (a[1] + b[1] + carry) \div 2]
    ELSE LET h == Len(a) \div 2
             low == AddHalves(SubSeq(a, h + 1, Len(a)),
                              SubSeq(b, h + 1, Len(b)), carry)
             high == IF low.c = 1
                     THEN AddHalves(SubSeq(a, 1, h), SubSeq(b, 1, h), 1)
                     ELSE AddHalves(SubSeq(a, 1, h), SubSeq(b, 1, h), 0)
         IN  [s |-> high.s \o low.s, c |-> high.c]

AddBits(a, b, carry) ==
    LET sum == AddHalves(a, b, carry)
    IN  IF sum.c = 1 THEN <<1>> \o sum.s ELSE sum.s

RECURSIVE StripZeros(_)
StripZeros(bits) ==
    IF bits # <<>> /\ Head(bits) = 0 THEN StripZeros(Tail(bits)) ELSE bits

\* the float64 nearest to bits * 2^e, plus a positive fraction of 2^e when
\* sticky, ties to even; bits starts with 1
RoundBits(bits, sticky, e) ==
    IF Len(bits) <= MantissaBits
    THEN <<bits \o Zeros(MantissaBits - Len(bits)),
           e - (MantissaBits - Len(bits))>>
    ELSE LET kept == SubSeq(bits, 1, MantissaBits)
             rest == SubSeq(bits, MantissaBits + 1, Len(bits))
             more == sticky \/ \E k \in 2..Len(rest) : rest[k] = 1
             up == rest[1] = 1 /\ (more \/ kept[MantissaBits] = 1)
             e2 == e + Len(rest)
             inc == AddBits(kept, Zeros(MantissaBits), 1)
         IN  IF ~up THEN <<kept, e2>>
             ELSE IF Len(inc) > MantissaBits
             THEN <<SubSeq(inc, 1, MantissaBits), e2 + 1>>
             ELSE <<inc, e2>>

\* x + y on positive float64
Add64(x, y) ==
    LET hi == IF x[2] >= y[2] THEN x ELSE y
        lo == IF x[2] >= y[2] THEN y ELSE x
        wide == hi[1] \o Zeros(hi[2] - lo[2])
    IN  RoundBits(AddBits(wide, Zeros(Len(wide) - Len(lo[1])) \o lo[1], 0),
                  FALSE, lo[2])

\* long division of a bit string by n, rem carried in: quotient bits and
\* remainder, the high half first
RECURSIVE DivBits(_, _, _)
DivBits(bits, n, rem) ==
    IF Len(bits) = 0 THEN [q |-> <<>>, r |-> rem]
    ELSE IF Len(bits) = 1
    THEN [q |-> <<(2 * rem + bits[1]) \div n>>, r |-> (2 * rem + bits[1]) % n]
    ELSE LET h == Len(bits) \div 2
             high == DivBits(SubSeq(bits, 1, h), n, rem)
             low == [r \in {high.r} |->
                        DivBits(SubSeq(bits, h + 1, Len(bits)), n, r)][high.r]
         IN  [q |-> high.q \o low.q, r |-> low.r]

\* x / n on a positive float64 and a count n of 1..MaxRowLen + 1
Div64(x, n) ==
    LET d == DivBits(x[1] \o Zeros(MaxRowLen + 2), n, 0)
    IN  RoundBits(StripZeros(d.q), d.r # 0, x[2] - (MaxRowLen + 2))

\* x <= y on positive float64
Le64(x, y) ==
    \/ x[2] < y[2]
    \/ /\ x[2] = y[2]
       /\ LET differ == {k \in DOMAIN x[1] : x[1][k] # y[1][k]}
          IN  \/ differ = {}
              \/ x[1][CHOOSE k \in differ : \A j \in differ : k <= j] = 0

RECURSIVE Sum64(_, _)
Sum64(acc, vals) ==
    IF vals = <<>> THEN acc ELSE Sum64(Add64(acc, Head(vals)), Tail(vals))

RECURSIVE Max64(_, _)
Max64(acc, vals) ==
    IF vals = <<>> THEN acc
    ELSE Max64(IF Le64(acc, Head(vals)) THEN Head(vals) ELSE acc, Tail(vals))

RECURSIVE Min64(_, _)
Min64(acc, vals) ==
    IF vals = <<>> THEN acc
    ELSE Min64(IF Le64(Head(vals), acc) THEN Head(vals) ELSE acc, Tail(vals))

\* the entries of the row that are not nan
Samples64(row) == SelectSeq(row, LAMBDA sample : ~IsNaN(sample))

\* np.nanmean(row): the nan entries are replaced by 0, which the sum adds
\* exactly, and the sum is divided by the count of the others
np_nanmean(row) ==
    LET vals == Samples64(row)
    IN  IF vals = <<>> THEN NaN
        ELSE Div64(Sum64(Head(vals), Tail(vals)), Len(vals))

\* np.nanmax(row)
np_nanmax(row) ==
    LET vals == Samples64(row)
    IN  IF vals = <<>> THEN NaN ELSE Max64(Head(vals), Tail(vals))

\* np.nanmin(row)
np_nanmin(row) ==
    LET vals == Samples64(row)
    IN  IF vals = <<>> THEN NaN ELSE Min64(Head(vals), Tail(vals))

\* the float64 values of 0.1, 0.3, 0.7 and 1.0
Float64Values ==
    {FromHex(<<9, 9, 9, 9, 9, 9, 9, 9, 9, 9, 9, 9, 10>>, -4),
     FromHex(<<3, 3, 3, 3, 3, 3, 3, 3, 3, 3, 3, 3, 3>>, -2),
     FromHex(<<6, 6, 6, 6, 6, 6, 6, 6, 6, 6, 6, 6, 6>>, -1),
     FromHex(<<0, 0, 0, 0, 0, 0, 0, 0, 0, 0, 0, 0, 0>>, 0)}

\* rows of sorted_array: samples followed or not by the nan fill
RowInputs ==
    UNION {[1..n -> Float64Values \cup {NaN}] : n \in 1..MaxRowLen}

MeanInit ==
    /\ FzIdle
    /\ ValIdle
    /\ RunIdle
    /\ DbIdle
    /\ ChunkIdle
    /\ CogIdle
    /\ DateIdle
    /\ nm_row \in RowInputs
    /\ nm_result = NotCalled

\* lines 324-329 for one row: feature_stats[i][stat] = results[i]
ReduceRow ==
    /\ nm_result = NotCalled
    /\ nm_result' = Returned([mean |-> np_nanmean(nm_row),
                              max |-> np_nanmax(nm_row),
                              min |-> np_nanmin(nm_row),
                              count |-> Len(Samples64(nm_row))])
    /\ UNCHANGED <<nm_row, vars_fz, vars_v, vars_run, vars_db, vars_pc,
                   vars_cog, vars_gd>>

MeanNext == ReduceRow

MeanSpec == MeanInit /\ [][MeanNext]_vars

------------------------------------------------------------------------------

(* Properties of the reducer, checked under ReducerSpec *)

FzReturned == fz_result.status = "ok"

FzRows == fz_result.value

\* the cells of the label raster that carry label i
CellsLabelled(i) == {j \in DOMAIN fz_admin : fz_admin[j] = Num(i)}

\* those of them whose source sample is a number
SampledCells(i) == {j \in CellsLabelled(i) : ~IsNaN(fz_src[j])}

Sample(j) == ToInt(fz_src[j])

\* every label of the raster is an index of the declared collection
LabelsWithin(n) ==
    \A j \in DOMAIN fz_admin :
        IsNaN(fz_admin[j]) \/ ToInt(fz_admin[j]) \in 0..(n - 1)

RECURSIVE SumOver(_, _)
SumOver(J, f) ==
    IF J = {} THEN 0
    ELSE LET j == CHOOSE j \in J : TRUE IN f[j] + SumOver(J \ {j}, f)

\* the k-th smallest of the samples x[j], j in J (k in 1..|J|), by rank
OrderStat(x, J, k) ==
    CHOOSE v \in {x[j] : j \in J} :
        /\ Cardinality({j \in J : x[j] < v}) < k
        /\ Cardinality({j \in J : x[j] <= v}) >= k

\* the statistics of the multiset of the samples x[j], j in J, each from its
\* textbook definition
StatsOfSamples(x, J) ==
    LET n == Cardinality(J)
        total == SumOver(J, x)
        dev2 == [j \in J |-> (n * x[j] - total) * (n * x[j] - total)]
    IN  [count |-> n,
         sum |-> Num(total),
         mean |-> IF n = 0 THEN NaN ELSE Frac(total, n),
         max |-> IF n = 0 THEN NaN
                 ELSE Num(CHOOSE v \in {x[j] : j \in J} :
                              \A j \in J : x[j] <= v),
         min |-> IF n = 0 THEN NaN
                 ELSE Num(CHOOSE v \in {x[j] : j \in J} :
                              \A j \in J : v <= x[j]),
         median |-> IF n = 0 THEN NaN
                    ELSE IF n % 2 = 1 THEN Num(OrderStat(x, J, (n + 1) \div 2))
                    ELSE Frac(OrderStat(x, J, n \div 2)
                              + OrderStat(x, J, n \div 2 + 1), 2),
         std |-> IF n = 0 THEN NaN ELSE Frac(SumOver(J, dev2), n * n * n)]

\* the statistics of the non-nan samples of the raster src at the cells J
DirectStatsOf(src, J) ==
    LET sampled == {j \in J : ~IsNaN(src[j])}
    IN  StatsOfSamples([j \in sampled |-> ToInt(src[j])], sampled)

DirectStats(J) == DirectStatsOf(fz_src, J)

\* C1 (as claimed): with the NaN fill, for every declared polygon count
\* N >= 1 and every label raster whose labels are indices below N, the call
\* returns exactly N entries, also when no label is present at all.
C1_EveryRasterGivesNEntries ==
    (fz_result # NotCalled /\ fz_n_adms >= 1 /\ IsNaN(fz_fill)
        /\ LabelsWithin(fz_n_adms))
    => (FzReturned /\ Len(FzRows) = fz_n_adms)

ObservedLabels == {ToInt(fz_admin[j]) : j \in {k \in DOMAIN fz_admin : ~IsNaN(fz_admin[k])}}

LargestOf(S) == CHOOSE v \in S : \A w \in S : w <= v

SmallestOf(S) == CHOOSE v \in S : \A w \in S : v <= w

\* the smallest observed label equals the fill value
FillIsSmallestLabel ==
    /\ ObservedLabels # {}
    /\ ~IsNaN(fz_fill)
    /\ Num(SmallestOf(ObservedLabels)) = fz_fill

\* the labels rows are scattered for
KeptLabels ==
    IF FillIsSmallestLabel
    THEN ObservedLabels \ {SmallestOf(ObservedLabels)}
    ELSE ObservedLabels

\* C21 (as claimed): when the label raster holds a label, the call returns
\* n_labels rows, n_labels the larger of n_adms and one plus the largest
\* label observed (one plus the largest label when n_adms is not given).
C21_RowsAreLargerOfCountAndLabels ==
    (fz_result # NotCalled /\ KeptLabels # {})
    => /\ FzReturned
       /\ Len(FzRows) = (IF fz_n_adms > 1 + LargestOf(KeptLabels)
                         THEN fz_n_adms ELSE 1 + LargestOf(KeptLabels))

\* the statistics of a row of n cells that holds the samples of the cells J
\* and the fill 0 in the n - |J| cells left
StatsOfPaddedRow(J, n) ==
    LET sampled == {j \in J : ~IsNaN(fz_src[j])}
        pads == {-k : k \in 1..(n - Cardinality(J))}
    IN  StatsOfSamples([j \in sampled \cup pads |->
                            IF j \in sampled THEN Sample(j) ELSE 0],
                       sampled \cup pads)

\* the pixel count of the label that has most pixels, among those kept
LargestGeom ==
    LargestOf({Cardinality(CellsLabelled(i)) : i \in KeptLabels})

\* C24: when the smallest observed label equals the fill (here 0) and the
\* call returns, there are other labels, the number of rows is determined
\* from them (n_adms, or one plus the largest of them), the row of the dropped label holds nothing but
\* fill whatever the samples of its cells are, and the row of every other
\* observed label holds all the samples of its cells, the rest being fill.
C24_FillLabelDropped ==
    (FzReturned /\ FillIsSmallestLabel)
    => /\ KeptLabels # {}
       /\ Len(FzRows) = (IF fz_n_adms # 0 THEN fz_n_adms
                         ELSE 1 + LargestOf(KeptLabels))
       /\ \A stat \in DefaultStats :
             FzRows[1][stat] = StatsOfPaddedRow({}, LargestGeom)[stat]
       /\ \A i \in KeptLabels :
             \A stat \in DefaultStats :
                 FzRows[i + 1][stat]
                     = StatsOfPaddedRow(CellsLabelled(i), LargestGeom)[stat]

\* C24 witness: fill 0, label 0 on a cell with a sample, label 1 on two
\* cells with samples
C24_Witness ==
    /\ FzReturned /\ FillIsSmallestLabel
    /\ SampledCells(0) # {}
    /\ Cardinality(SampledCells(1)) = 2

-----------------------------------------------------------------------------
(* Properties of the validator, checked under ValidatorSpec *)

ValCalled == v_result.status \in {"ok", "ValueError"}

ValRejected == v_result.status = "ValueError"

ValRejectedBy(rule) == ValRejected /\ v_result.what = rule

\* the float x lies outside [min, max] of the record
Outside(x) == Lt(x, v_stats["min"]) \/ Lt(v_stats["max"], x)

\* C8: a record whose min and max are both numbers with min > max is
\* rejected, by the min/max rule; a record whose min or max is nan is never
\* rejected by that rule.
C8_MinMaxOrdering ==
    ValCalled
    => /\ Lt(v_stats["max"], v_stats["min"])
            => ValRejectedBy("min is not <= max")
       /\ (IsNaN(v_stats["min"]) \/ IsNaN(v_stats["max"]))
            => ~ValRejectedBy("min is not <= max")

\* C8 witness: min = 2 > max = 1 and the call raised
C8_Witness ==
    /\ ValRejected
    /\ v_stats["min"] = Num(2) /\ v_stats["max"] = Num(1)

MonthsApart(valid_date, issued_date) ==
    WholeMonths(valid_date, issued_date,
        (valid_date[1] - issued_date[1]) * 12
        + (valid_date[2] - issued_date[2]))

\* C10 (as claimed): a forecast record with issued_date <= valid_date,
\* however far apart, is accepted only if its leadtime is in 0..6 and equals
\* the whole-month difference between valid_date and issued_date.
C10_AcceptedLeadtimeIsMonthDiff ==
    (v_result.status = "ok" /\ "issued_date" \in DOMAIN v_stats)
    => /\ v_stats["leadtime"] \in 0..6
       /\ v_stats["leadtime"] =
              MonthsApart(v_stats["valid_date"], v_stats["issued_date"])

\* the rules on single fields, in the order the validator checks them
Broken(rule) ==
    CASE rule = "std is not >= 0" ->
            ~IsNaN(v_stats["std"]) /\ Lt(v_stats["std"], Num(0))
      [] rule = "count is not >= 0" -> v_stats["count"] < 0
      [] rule = "adm_level is not between 0 and 4" ->
            v_stats["adm_level"] \notin 0..4
      [] rule = "iso3 is not valid" ->
            ~(Len(v_iso3) = 3 /\ \A k \in 1..3 : v_iso3[k] \in UpperLetters)

FieldRules ==
    <<"std is not >= 0", "count is not >= 0",
      "adm_level is not between 0 and 4", "iso3 is not valid">>

OffendingValue(rule) ==
    CASE rule = "std is not >= 0" -> v_stats["std"]
      [] rule = "count is not >= 0" -> v_stats["count"]
      [] rule = "adm_level is not between 0 and 4" -> v_stats["adm_level"]
      [] rule = "iso3 is not valid" -> v_iso3

\* min, max, mean and median pass their checks
RangeRulesHold ==
    (IsNaN(v_stats["min"]) \/ IsNaN(v_stats["max"]))
    \/ /\ Le(v_stats["min"], v_stats["max"])
       /\ \A stat \in {"mean", "median"} :
             IsNaN(v_stats[stat]) \/ ~Outside(v_stats[stat])

\* C11 (as claimed): a record that breaks one of the rules non-nan std >= 0,
\* count >= 0, 0 <= adm_level <= 4, iso3 is exactly three uppercase letters
\* is rejected whatever its other fields are, and the error names the rule
\* that is broken and the offending value (the first broken rule when
\* several are).
C11_FieldRulesReject ==
    ValCalled
    => \A r \in DOMAIN FieldRules :
          Broken(FieldRules[r])
          => /\ ValRejected
             /\ ValRejectedBy(FieldRules[r])
                   => v_result.values = <<OffendingValue(FieldRules[r])>>
             /\ (RangeRulesHold /\ \A q \in 1..(r - 1) : ~Broken(FieldRules[q]))
                   => ValRejectedBy(FieldRules[r])

IsForecast == "issued_date" \in DOMAIN v_stats

\* the record keeps every rule of the validator as the rules are worded
SatisfiesEveryRule ==
    /\ RangeRulesHold
    /\ \A r \in DOMAIN FieldRules : ~Broken(FieldRules[r])
    /\ IF IsForecast
       THEN /\ DateLe(v_stats["issued_date"], v_stats["valid_date"])
            /\ v_stats["leadtime"] \in 0..6
            /\ v_stats["leadtime"] =
                   MonthsApart(v_stats["valid_date"], v_stats["issued_date"])
       ELSE DateLe(v_stats["valid_date"], v_now)

\* C12: a forecast record whose issued_date is after its valid_date is
\* rejected; a record without issued_date whose valid_date is after the
\* current date is rejected; a record that satisfies every rule is returned
\* unchanged.
C12_DateRulesAndReturn ==
    ValCalled
    => /\ (IsForecast
            /\ DateLt(v_stats["valid_date"], v_stats["issued_date"]))
          => ValRejected
       /\ (~IsForecast /\ DateLt(v_now, v_stats["valid_date"]))
          => ValRejected
       /\ SatisfiesEveryRule => v_result = Returned(v_stats)

\* C12 witness: a record without issued_date that keeps every other rule and
\* is rejected for its valid_date after the current date
C12_Witness ==
    /\ ~IsForecast
    /\ ValRejectedBy("valid_date is not <= current date")
    /\ v_result.values = <<v_stats["valid_date"]>>
    /\ DateLt(v_now, v_stats["valid_date"])

-----------------------------------------------------------------------------
(* Properties of the runner, checked under Spec *)

\* the run returned the table
RunReturned == r_pc = "returned" /\ r_ret # ReturnedNone

Table == r_ret.value

NPolygons == Len(r_gdf)

Rasterized == r_pc \in {"dates", "returned"}

\* the cells whose centre lies in the polygon at position k of the collection
CellsOf(k) == r_gdf[k].geometry.cells

\* the (date, value) positions of the grid in the order the loops visit them
SlicePairs ==
    LET n_vals == IF FourthDim = "None" THEN 1 ELSE Len(r_ds.fourth)
    IN  [p \in 1..(Len(r_ds.date) * n_vals) |->
            <<((p - 1) \div n_vals) + 1, ((p - 1) % n_vals) + 1>>]

SliceAt(pair) == r_ds.data[pair[1]][pair[2]]

HasSample(slice) == \E c \in DOMAIN slice : ~IsNaN(slice[c])

\* the pairs of a 4-D grid whose slice holds a number, in loop order
SampledPairs == SelectSeq(SlicePairs, LAMBDA pair : HasSample(SliceAt(pair)))

\* the statistics a record carries
StatsOfRow(row) == [stat \in DefaultStats |-> row[stat]]

\* C4 (as claimed): the table returned for a 3-D grid with D dates and N
\* polygons has D*N rows; the row at position d*N+i carries the pcode of the
\* i-th polygon of the collection and the statistics of the cells labelled i
\* in the slice of date d.
C4_RowsTrackPolygonPosition ==
    (RunReturned /\ FourthDim = "None")
    => /\ Len(Table) = Len(r_ds.date) * NPolygons
       /\ \A d \in DOMAIN r_ds.date : \A i \in 0..(NPolygons - 1) :
             LET row == Table[(d - 1) * NPolygons + i + 1]
                 labelled == {c \in Cells : r_admin_raster[c] = Num(i)}
             IN  /\ row["valid_date"] = r_ds.date[d]
                 /\ row["pcode"] = r_gdf[i + 1].pcode
                 /\ StatsOfRow(row) = DirectStatsOf(r_ds.data[d][1], labelled)

\* C5 (as claimed): whatever row index the collection carries, every cell
\* inside the polygon at position k is burned with k - 1 and every cell
\* inside no polygon keeps the fill.
C5_BurnsPolygonPosition ==
    Rasterized
    => \A c \in Cells :
          /\ \A k \in DOMAIN r_gdf :
                c \in CellsOf(k) => r_admin_raster[c] = Num(k - 1)
          /\ (\A k \in DOMAIN r_gdf : c \notin CellsOf(k))
                => IsNaN(r_admin_raster[c])

\* C6: the table returned for a 4-D grid with a leadtime axis holds no row
\* for a (date, leadtime) pair whose slice is all nan and exactly N rows for
\* every other pair, N times the number of those pairs in all.
C6_AllNanSlicesEmitNoRow ==
    (RunReturned /\ FourthDim = "leadtime")
    => /\ Len(Table) = NPolygons * Len(SampledPairs)
       /\ \A d \in DOMAIN r_ds.date : \A l \in DOMAIN r_ds.fourth :
             LET rows == {k \in DOMAIN Table :
                             /\ Table[k]["valid_date"] = r_ds.date[d]
                             /\ Table[k]["leadtime"] = r_ds.fourth[l]}
             IN  Cardinality(rows) =
                     IF HasSample(r_ds.data[d][l]) THEN NPolygons ELSE 0

\* C6 witness: a returned leadtime table of a grid with an all-nan slice and
\* a slice that is nan in one cell only
C6_Witness ==
    /\ RunReturned /\ FourthDim = "leadtime"
    /\ Len(Table) > 0
    /\ \E d \in DOMAIN r_ds.date : \E l \in DOMAIN r_ds.fourth :
          ~HasSample(r_ds.data[d][l])
    /\ \E d \in DOMAIN r_ds.date : \E l \in DOMAIN r_ds.fourth :
          /\ HasSample(r_ds.data[d][l])
          /\ \E c \in Cells : IsNaN(r_ds.data[d][l][c])

\* the date m calendar months before date, the day clipped to the month
MonthsBefore(date, m) ==
    LET total == date[1] * 12 + (date[2] - 1) - m
        y == total \div 12
        mo == (total % 12) + 1
        last == DaysInMonth(y, mo)
    IN  <<y, mo, IF date[3] > last THEN last ELSE date[3]>>

\* the slices that gave rows, in the order of the rows
EmittedPairs == IF FourthDim = "None" THEN SlicePairs ELSE SampledPairs

\* C7: every record of a returned table carries the valid_date of its slice,
\* the adm_level and iso3 of the run and the pcode of its polygon, the one
\* whose pixels its statistics are taken over; a record of a leadtime batch
\* also carries the leadtime of its slice and issued_date equal to valid_date
\* minus leadtime calendar months.
C7_RecordKeys ==
    RunReturned
    => \A k \in DOMAIN Table :
          LET row == Table[k]
              pair == EmittedPairs[((k - 1) \div NPolygons) + 1]
              i == (k - 1) % NPolygons
              date == r_ds.date[pair[1]]
          IN  /\ row["valid_date"] = date
              /\ row["adm_level"] = r_adm_level
              /\ row["iso3"] = r_iso3
              /\ \E q \in DOMAIN r_gdf :
                    /\ row["pcode"] = r_gdf[q].pcode
                    /\ StatsOfRow(row) = DirectStatsOf(SliceAt(pair), CellsOf(q))
                    /\ \A c \in CellsOf(q) : r_admin_raster[c] = Num(i)
              /\ FourthDim = "leadtime"
                    => /\ row["leadtime"] = r_ds.fourth[pair[2]]
                       /\ row["issued_date"] =
                              MonthsBefore(date, r_ds.fourth[pair[2]])

\* C7 witness: a returned leadtime table with a record one month ahead of an
\* issue date whose day was clipped (2024-03-31 less one month)
C7_Witness ==
    /\ RunReturned /\ FourthDim = "leadtime"
    /\ \E k \in DOMAIN Table :
          /\ Table[k]["valid_date"] = D2
          /\ Table[k]["leadtime"] = 1
          /\ Table[k]["issued_date"] = <<2024, 2, 29>>

\* the call is over
RunOver == r_pc \in {"returned", "raised"}

\* the call did not ask for the table to be saved (a call that raised before
\* line 237 never read the argument)
NotSaving == r_save = <<>> \/ ~r_save.save_to_database

\* C18 (as claimed): after a call that did not ask for persistence, the grid
\* and the polygon collection the caller passed, geometries included, are
\* as they were before the call.
C18_InputsUnchanged ==
    (RunOver /\ NotSaving) => (r_ds = r_args.ds /\ r_gdf = r_args.gdf)

\* the call asked for the table to be saved and passed the engine and the
\* dataset the docstring requires for that
SaveRequested ==
    /\ r_save # <<>>
    /\ r_save.save_to_database
    /\ r_save.engine # "None"
    /\ r_save.dataset # "None"

\* C19 (as claimed): a call with save_to_database=True that got as far as
\* the assembled table has upserted every row of it into the dataset table
\* and returns None; a call with save_to_database=False returns the table
\* and the dataset table is as it was.
C19_SavesOrReturns ==
    /\ SaveRequested
          => /\ r_ret = ReturnedNone
             /\ Range(DataFrame(r_outputs)) \subseteq db_table
    /\ (r_save # <<>> /\ ~r_save.save_to_database)
          => /\ r_ret = Returned(DataFrame(r_outputs))
             /\ db_table = {}

-----------------------------------------------------------------------------
\* the calls of the run to rasterize_admin, in order
RasterizeCalls == SelectSeq(r_calls, LAMBDA call : call.fn = "rasterize_admin")

\* the calls of the run to the reducer, in order
ReducerCalls == SelectSeq(r_calls, LAMBDA call : call.fn = "fast_zonal_stats")

\* C22: a run rasterizes the polygon collection at most once, exactly once
\* when it gets past the dimension check, and before it reduces any slice;
\* every reducer call of the run, whatever its date or leadtime, is given the
\* label raster that one rasterization built and the number of polygons of
\* the collection as its row count.
C22_OneLabelRasterPerRun ==
    /\ Len(RasterizeCalls) <= 1
    /\ (Rasterized \/ ReducerCalls # <<>>)
       => /\ Len(RasterizeCalls) = 1
          /\ r_calls[1].fn = "rasterize_admin"
    /\ \A k \in DOMAIN ReducerCalls :
          /\ ReducerCalls[k].admin_raster = r_calls[1].admin_raster
          /\ ReducerCalls[k].n_adms = Len(r_args.gdf)
    /\ RunReturned
       => /\ Len(ReducerCalls) = Len(EmittedPairs)
          /\ \A k \in DOMAIN ReducerCalls :
                ReducerCalls[k].src_raster = SliceAt(EmittedPairs[k])

\* a returned run over two dates and two leadtimes that reduced four slices
\* with the one label raster
C22_Witness ==
    /\ RunReturned
    /\ Len(r_ds.date) = 2
    /\ FourthDim = "leadtime"
    /\ Len(ReducerCalls) = 4
    /\ NPolygons = 2
    /\ \A k \in DOMAIN ReducerCalls :
          ReducerCalls[k].admin_raster = r_admin_raster

\* the rows of the table that the p-th emitted slice gave, by label
TableRow(p, i) == Table[(p - 1) * NPolygons + i + 1]

\* the cells the label raster of the run marks with i
LabelledCells(i) == {c \in Cells : r_admin_raster[c] = Num(i)}

\* slice b is slice a with delta added to every sample
ShiftedBy(a, b, delta) ==
    \A c \in Cells :
        IF IsNaN(a[c]) THEN IsNaN(b[c])
        ELSE ~IsNaN(b[c]) /\ ToInt(b[c]) = ToInt(a[c]) + delta

\* the float v plus the integer delta
Plus(v, delta) == IF IsNaN(v) THEN NaN ELSE Frac(v[1] + delta * v[2], v[2])

\* C23: the records a returned run emits for a slice are the statistics of
\* that slice alone under the label raster of the run, whatever the other
\* slices of the grid hold; when the slice of a second date is the slice of a
\* first date with a constant added, the second date's mean, min, max and
\* median are the first date's plus that constant and its count and std are
\* the first date's.
C23_RecordsOfADateFromItsSlice ==
    RunReturned
    => LET pairs == EmittedPairs
           labels == 0..(NPolygons - 1)
       IN  /\ Len(Table) = NPolygons * Len(pairs)
           /\ \A p \in DOMAIN pairs : \A i \in labels :
                 /\ TableRow(p, i)["valid_date"] = r_ds.date[pairs[p][1]]
                 /\ StatsOfRow(TableRow(p, i)) =
                        DirectStatsOf(SliceAt(pairs[p]), LabelledCells(i))
           /\ \A p, q \in DOMAIN pairs :
                 LET a == SliceAt(pairs[p])
                     b == SliceAt(pairs[q])
                     both == {c \in Cells : ~IsNaN(a[c]) /\ ~IsNaN(b[c])}
                     delta == LET first == CHOOSE c \in both : TRUE
                              IN  ToInt(b[first]) - ToInt(a[first])
                 IN  (p < q /\ both # {} /\ ShiftedBy(a, b, delta))
                     => \A i \in labels :
                           /\ \A stat \in {"mean", "min", "max", "median"} :
                                 TableRow(q, i)[stat] =
                                     Plus(TableRow(p, i)[stat], delta)
                           /\ TableRow(q, i)["count"] = TableRow(p, i)["count"]
                           /\ TableRow(q, i)["std"] = TableRow(p, i)["std"]

\* a returned table of a 3-D grid of two dates whose second slice is the
\* first plus the number of cells, reduced over a polygon that holds every
\* cell
C23_Witness ==
    /\ RunReturned
    /\ FourthDim = "None"
    /\ Len(r_ds.date) = 2
    /\ \A c \in Cells : ~IsNaN(r_ds.data[1][1][c])
    /\ ShiftedBy(r_ds.data[1][1], r_ds.data[2][1], GridCells)
    /\ \E i \in 0..(NPolygons - 1) :
          /\ LabelledCells(i) = Cells
          /\ TableRow(1, i)["count"] = GridCells
          /\ TableRow(2, i)["mean"] = Plus(TableRow(1, i)["mean"], GridCells)
          /\ TableRow(2, i)["mean"] # TableRow(1, i)["mean"]

\* the required axes the grid of the run lacks
MissingDims == {"x", "y", "date"} \ {r_ds.dims[k] : k \in DOMAIN r_ds.dims}

\* the axes of the grid of the run that are not required
OtherDims == {r_ds.dims[k] : k \in DOMAIN r_ds.dims} \ {"x", "y", "date"}

\* C26: on a grid that lacks any of x, y and date, validate_dimensions raises
\* a ValueError that names exactly the missing axes, and the run ends with
\* that error before it rasterized or reduced anything and without a record;
\* on any other grid validate_dimensions returns the axis that is not
\* required, or None when there is none, and the run goes on to rasterize.
C26_DimensionsCheckedFirst ==
    /\ MissingDims # {}
       => /\ validate_dimensions(r_ds.dims).status = "ValueError"
          /\ validate_dimensions(r_ds.dims).what.missing_dims = MissingDims
          /\ r_calls = <<>>
          /\ r_outputs = <<>>
          /\ r_admin_raster = <<>>
          /\ db_table = {}
          /\ r_pc \in {"start", "raised"}
          /\ r_pc = "raised" => r_ret = validate_dimensions(r_ds.dims)
    /\ MissingDims = {}
       => /\ validate_dimensions(r_ds.dims).status = "ok"
          /\ IF OtherDims = {} THEN FourthDim = "None"
             ELSE OtherDims = {FourthDim}
          /\ r_pc # "start" => RasterizeCalls # <<>>
          /\ RunReturned
             => \A k \in DOMAIN Table :
                   OtherDims \subseteq DOMAIN Table[k]

\* a run on a grid with a leadtime axis and no date axis that ended in the
\* ValueError naming date
C26_Witness ==
    /\ r_pc = "raised"
    /\ r_ret.status = "ValueError"
    /\ "leadtime" \in OtherDims
    /\ r_ret.what.missing_dims = {"date"}
    /\ r_outputs = <<>>

\* the leadtimes validate_stats accepts
ValidLeadtimes == 0..6

\* the checks of validate_stats that read issued_date and leadtime
ForecastRules ==
    {"issued_date is not <= valid_date", "leadtime is not between 0 and 6",
     "leadtime should match the diff"}

\* whole calendar months from date a to the later date b
MonthsBetween(a, b) ==
    (b[1] - a[1]) * 12 + (b[2] - a[2]) - (IF b[3] < a[3] THEN 1 ELSE 0)

\* valid dates at the ends of months of unequal length
MonthEndDates ==
    {<<2024, 2, 29>>, <<2023, 3, 30>>, <<2024, 8, 31>>}

\* the run is over a grid with a leadtime axis whose dates are strings
LeadtimeRun ==
    /\ r_pc \notin {"idle", "start"}
    /\ r_calls # <<>>
    /\ FourthDim = "leadtime"
    /\ r_ds.date_type = "str"

\* the run stopped inside the loops, on the slice at (r_date_i, r_val_i)
RaisedInLoops == r_pc = "raised" /\ r_date_i <= Len(r_ds.date)

\* the run is about to reduce its first slice
LoopsStart == r_pc = "dates" /\ r_outputs = <<>> /\ Len(r_calls) = 1

\* the issued_date derived for every valid_date and every leadtime of 0..6
\* passes the forecast checks of validate_stats
DerivedIssuedDatePasses ==
    /\ (LeadtimeRun /\ LoopsStart)
       => \A date \in MonthEndDates \cup {r_ds.date[k] : k \in DOMAIN r_ds.date} :
          \A lt \in ValidLeadtimes :
          /\ DateLe(add_months_to_date(date, -lt), date)
          /\ MonthsBetween(add_months_to_date(date, -lt), date) = lt
          /\ CheckDates([valid_date |-> date, leadtime |-> lt,
                         issued_date |-> add_months_to_date(date, -lt)],
                        Today) = "ok"
    /\ (LeadtimeRun /\ RunReturned)
       => \A k \in DOMAIN Table :
             /\ Table[k]["leadtime"] \in ValidLeadtimes
             /\ DateLe(Table[k]["issued_date"], Table[k]["valid_date"])
             /\ MonthsBetween(Table[k]["issued_date"], Table[k]["valid_date"])
                    = Table[k]["leadtime"]
    /\ (LeadtimeRun /\ RaisedInLoops /\ r_ret.status = "ValueError"
            /\ r_ret.what \in ForecastRules)
       => /\ r_ds.fourth[r_val_i] \notin ValidLeadtimes
          /\ r_ret.what = "leadtime is not between 0 and 6"

\* C29 (as claimed): the derived issued_date passes the forecast checks for
\* every leadtime of 0..6, and a run over a grid that holds a slice with a
\* leadtime outside 0..6 raises and returns no table.
C29_AsClaimed ==
    /\ DerivedIssuedDatePasses
    /\ (LeadtimeRun /\ RunOver
            /\ \E l \in DOMAIN r_ds.fourth :
                   r_ds.fourth[l] \notin ValidLeadtimes)
       => (r_pc = "raised" /\ db_table = {})

\* C29 (amended): the derived issued_date passes the forecast checks for
\* every leadtime of 0..6, and a run over a grid that holds a slice with a
\* leadtime outside 0..6 and a sample that is not NaN raises and returns no
\* table; a slice that is all NaN is skipped whatever its leadtime.
C29_SampledLeadtimeOutOfRangeRaises ==
    /\ DerivedIssuedDatePasses
    /\ (LeadtimeRun /\ RunOver
            /\ \E p \in DOMAIN SampledPairs :
                   r_ds.fourth[SampledPairs[p][2]] \notin ValidLeadtimes)
       => (r_pc = "raised" /\ db_table = {})
    /\ (LeadtimeRun /\ RunReturned)
       => \A p \in DOMAIN SlicePairs :
             r_ds.fourth[SlicePairs[p][2]] \notin ValidLeadtimes
             => ~HasSample(SliceAt(SlicePairs[p]))

\* a run that keyed the records of the slice of leadtime 6 with the issued
\* date six months before the valid date and raised on the slice of
\* leadtime 7
C29_Witness ==
    /\ LeadtimeRun
    /\ RaisedInLoops
    /\ r_ret.status = "ValueError"
    /\ r_ret.what = "leadtime is not between 0 and 6"
    /\ r_ds.fourth[r_val_i] = 7
    /\ r_outputs # <<>>
    /\ \A k \in DOMAIN r_outputs :
          /\ r_outputs[k]["leadtime"] = 6
          /\ r_outputs[k]["valid_date"] = D2
          /\ r_outputs[k]["issued_date"] = <<2023, 9, 30>>

\* the rows of the table that carry the date at position d of the date axis
RowsOfDate(d) == {k \in DOMAIN Table : Table[k]["valid_date"] = r_ds.date[d]}

\* C30: the table returned for a grid without a fourth axis holds exactly N
\* rows for every date of the date axis; the N rows of a date whose slice is
\* all NaN have count 0 and NaN mean, median, min, max and std.  A slice is
\* skipped for being all NaN only when the grid has a fourth axis.
C30_ThreeDimKeepsAllNanDates ==
    /\ (RunReturned /\ FourthDim = "None")
       => /\ Len(Table) = NPolygons * Len(r_ds.date)
          /\ \A d \in DOMAIN r_ds.date :
                \A k \in ((d - 1) * NPolygons + 1)..(d * NPolygons) :
                   /\ Table[k]["valid_date"] = r_ds.date[d]
                   /\ ~HasSample(r_ds.data[d][1])
                      => /\ Table[k]["count"] = 0
                         /\ \A stat \in {"mean", "median", "min", "max",
                                         "std"} : IsNaN(Table[k][stat])
    /\ (r_pc = "returned" /\ FourthDim = "None")
       => Len(ReducerCalls) = Len(r_ds.date)
    /\ (r_pc = "returned" /\ FourthDim # "None")
       => Len(ReducerCalls) = Len(SampledPairs)

\* a returned table of a 3-D grid of two dates and two polygons whose first
\* slice is all NaN and whose second slice is not
C30_Witness ==
    /\ RunReturned
    /\ FourthDim = "None"
    /\ Len(r_ds.date) = 2
    /\ NPolygons = 2
    /\ ~HasSample(r_ds.data[1][1])
    /\ HasSample(r_ds.data[2][1])
    /\ Len(Table) = 4
    /\ Table[1]["count"] = 0 /\ IsNaN(Table[1]["mean"])
    /\ \E k \in RowsOfDate(2) : Table[k]["count"] > 0

(* Properties of the dataset table, checked under DbSpec *)

ForecastTable == "leadtime" \in Range(db_schema.columns)

\* the natural key of the table's dataset
NaturalKeyColumns ==
    IF ForecastTable THEN <<"valid_date", "pcode", "leadtime">>
    ELSE <<"valid_date", "pcode">>

NaturalKeyOf(row) == KeyOf(NaturalKeyColumns, row)

Committed(w) == db_w[w].status = "committed"

FrameRows(w) == Range(db_w[w].frame)

\* the rows of the table that carry the natural key of row
RowsLike(row) == {r \in db_table : NaturalKeyOf(r) = NaturalKeyOf(row)}

\* C13 (as claimed): the unique constraint the upsert goes by is
\* (valid_date, pcode) on an observational table and (valid_date, pcode,
\* leadtime) on a forecast table, so that after any sequence of upserts every
\* row a writer has committed is still there under its natural key, rows of
\* one valid_date and pcode and different leadtimes included.
C13_KeyIsNaturalKey ==
    /\ Range(db_schema.unique) = Range(NaturalKeyColumns)
    /\ (\A w \in Writers : db_w[w].status \in {"committed", "failed"})
          => \A w \in Writers : Committed(w)
                => \A row \in FrameRows(w) : RowsLike(row) # {}

\* writer 2 wrote the natural keys of writer 1 again, after writer 1 was done
WroteTwice ==
    /\ Committed(1) /\ Committed(2)
    /\ {NaturalKeyOf(row) : row \in FrameRows(1)}
          = {NaturalKeyOf(row) : row \in FrameRows(2)}
    /\ db_commits[1].writer = 1
    /\ db_w[2].began = 1

\* C14 (as claimed): after the same batch was written twice, one write after
\* the other, the table holds exactly one row per natural key, that row is
\* the row of the second write, and the table has as many rows as after the
\* first write.
C14_SecondWriteReplaces ==
    WroteTwice
    => /\ \A row \in FrameRows(2) : RowsLike(row) = {row}
       /\ db_commits[2].size = db_commits[1].size
       /\ Cardinality(db_table) = Len(db_w[1].frame)

\* C15 (as claimed): whatever the interleaving of the upserts of two writers
\* with overlapping natural keys, no natural key is ever held by two rows of
\* the table, and once the writers are done every natural key a committed
\* writer wrote is held by exactly one row, the row one of the writers wrote.
C15_WritersConverge ==
    /\ \A r1, r2 \in db_table : NaturalKeyOf(r1) = NaturalKeyOf(r2) => r1 = r2
    /\ (\A w \in Writers : db_w[w].status \in {"committed", "failed"})
          => \A w \in Writers : Committed(w)
                => \A row \in FrameRows(w) :
                      /\ Cardinality(RowsLike(row)) = 1
                      /\ RowsLike(row) \subseteq FrameRows(1) \cup FrameRows(2)

-----------------------------------------------------------------------------
(* Properties of process_chunk, checked under ChunkSpec *)

\* the countries the loop is through with
Handled == 1..(pc_row - 1)

Processed(c) == c.covered /\ c.shp = "ok"

\* the adm_levels of c for which the runner was called and returned a table
ComputedLevels(c) ==
    IF ~Processed(c) \/ c.prep # "ok" THEN {}
    ELSE {l \in 0..c.max_adm_level : \A j \in 0..l : c.levels[j + 1] = "ok"}

\* the first adm_level of c at which the runner raises, if any
FailingLevels(c) ==
    IF ~Processed(c) \/ c.prep # "ok" THEN {}
    ELSE {l \in 0..c.max_adm_level :
             /\ c.levels[l + 1] # "ok"
             /\ \A j \in 0..(l - 1) : c.levels[j + 1] = "ok"}

\* C16 (as claimed): when the run is over, the rows computed for every
\* (iso3, adm_level) unit are in the table, also the rows of the other
\* levels of a country one level of which failed.
C16_FailureIsFatalForItsUnitOnly ==
    (pc_at = "disposed" /\ pc_exc = NotRaised)
    => \A k \in DOMAIN pc_df_iso3s :
          \A l \in ComputedLevels(pc_df_iso3s[k]) :
              Range(UnitRows(pc_df_iso3s[k].iso3, l)) \subseteq db_table

\* the qa row a failure of preparation or of the statistics of c must leave
FailureRows(c) ==
    IF Processed(c) /\ c.prep # "ok"
    THEN <<[iso3 |-> c.iso3, adm_level |-> "None", dataset |-> "dataset",
            error |-> "prep_raster", stack_trace |-> c.prep]>>
    ELSE IF FailingLevels(c) # {}
    THEN LET l == CHOOSE l \in FailingLevels(c) : TRUE
         IN  <<[iso3 |-> c.iso3, adm_level |-> l, dataset |-> "dataset",
                error |-> "fast_zonal_stats_runner",
                stack_trace |-> c.levels[l + 1]]>>
    ELSE <<>>

RECURSIVE FailureRowsUpTo(_)
FailureRowsUpTo(k) ==
    IF k = 0 THEN <<>>
    ELSE FailureRowsUpTo(k - 1) \o FailureRows(pc_df_iso3s[k])

\* the qa rows of failures of preparation or of the statistics
QaOfFailures ==
    SelectSeq(pc_qa, LAMBDA row :
        row.error \in {"prep_raster", "fast_zonal_stats_runner"})

\* C17: every country whose raster preparation or statistics raised has left
\* exactly one qa row (iso3, adm_level or none for a preparation failure,
\* dataset, error text, stack trace), in the order of the countries; such a
\* failure never ends the run: an exception leaves process_chunk only from
\* the loading of a shapefile, and a run that no exception left went through
\* every country.
C17_FailuresLeaveQaRowAndLoopGoesOn ==
    /\ pc_at # "idle" => QaOfFailures = FailureRowsUpTo(pc_row - 1)
    /\ pc_exc \notin {NotRaised, [status |-> "idle"]}
          => ThisCountry.shp # "ok"
    /\ (pc_at = "disposed" /\ pc_exc = NotRaised)
          => pc_row = Len(pc_df_iso3s) + 1

\* C17 witness: the run is over, the first country failed at adm_level 1
\* after adm_level 0, left its qa row, and the rows of the second country
\* are in the table
C17_Witness ==
    /\ pc_at = "disposed" /\ pc_exc = NotRaised
    /\ Len(pc_df_iso3s) = 2
    /\ FailingLevels(pc_df_iso3s[1]) = {1}
    /\ pc_qa = <<[iso3 |-> Iso3Of(1), adm_level |-> 1, dataset |-> "dataset",
                  error |-> "fast_zonal_stats_runner",
                  stack_trace |-> "ValueError"]>>
    /\ Range(UnitRows(Iso3Of(2), 0)) \subseteq db_table

\* the record passes validate_stats on the day of the run
PassesValidation(row) == validate_stats(r_iso3, row, Today).status = "ok"

\* the record of label i of the p-th emitted slice, at pair of the grid: the
\* statistics the run computed, under the keys the grid and the call give
ExpectedRecord(p, pair, i) ==
    LET date == r_ds.date[pair[1]]
        base == StatsOfRow(r_outputs[(p - 1) * NPolygons + i + 1])
                    @@ ("valid_date" :> date) @@ ("adm_level" :> r_adm_level)
    IN  IF FourthDim = "leadtime"
        THEN base @@ ("leadtime" :> r_ds.fourth[pair[2]])
                  @@ ("issued_date" :>
                         MonthsBefore(date, r_ds.fourth[pair[2]]))
        ELSE base

\* the countries of a chunk one of whose adm_levels failed in the runner
FailedCountries ==
    {pc_df_iso3s[k].iso3 : k \in {j \in Handled :
                                     FailingLevels(pc_df_iso3s[j]) # {}}}

C27_ChunkWitness ==
    /\ pc_at = "disposed"
    /\ FailedCountries # {}
    /\ db_table # {}
    /\ \E k \in Handled :
          /\ FailingLevels(pc_df_iso3s[k]) # {}
          /\ 0 \in ComputedLevels(pc_df_iso3s[k])

-----------------------------------------------------------------------------
(* Properties of the COG processors, checked under CogSpec *)

IsDigit(c) == c \in Range(Digits)

DigitOf(c) == CHOOSE d \in 0..9 : Digits[d + 1] = c

\* int(s) of a string of digits
RECURSIVE IntOf(_)
IntOf(s) ==
    IF s = <<>> THEN 0
    ELSE 10 * IntOf(SubSeq(s, 1, Len(s) - 1)) + DigitOf(s[Len(s)])

\* the <<year, month, day>> a string YYYY-MM-DD says, <<>> for other strings
DateOfString(s) ==
    IF /\ Len(s) = 10
       /\ s[5] = "-" /\ s[8] = "-"
       /\ \A k \in {1, 2, 3, 4, 6, 7, 9, 10} : IsDigit(s[k])
    THEN <<IntOf(SubSeq(s, 1, 4)), IntOf(SubSeq(s, 6, 7)),
           IntOf(SubSeq(s, 9, 10))>>
    ELSE <<>>

DailyProducts == {"imerg", "floodscan"}

\* the attributes the processor of a dataset needs
RequiredAttrs(dataset) ==
    {"year_valid", "month_valid"}
    \cup (IF dataset \in DailyProducts THEN {"date_valid"} ELSE {})
    \cup (IF dataset = "seas5" THEN {"leadtime"} ELSE {})

ProcessorCalled == g_result \notin {NotCalled, [status |-> "idle"]}

\* what the claim says the call on g_attrs does
AttrsDecideDate(dataset) ==
    IF RequiredAttrs(dataset) \subseteq DOMAIN g_attrs
    THEN /\ g_result.status = "ok"
         /\ DateOfString(g_result.value.date)
                = <<g_attrs["year_valid"], g_attrs["month_valid"],
                    IF dataset \in DailyProducts THEN g_attrs["date_valid"]
                    ELSE 1>>
         /\ dataset = "seas5"
               => g_result.value.leadtime = g_attrs["leadtime"]
    ELSE /\ g_result.status = "KeyError"
         /\ g_result.what \in RequiredAttrs(dataset) \ DOMAIN g_attrs

\* C20 (as claimed): the array a processor returns has the date its COG's
\* validity attributes say (the first of the month for the monthly
\* products, date_valid for the daily ones; seas5 also the leadtime), and a
\* call on a COG that lacks a required attribute raises KeyError.
C20_DateFromAttrs == ProcessorCalled => AttrsDecideDate(g_dataset)

------------------------------------------------------------------------------
(* Properties of generate_date_series, checked under DateSpec *)

\* the days of the years the calls lie in
Calendar ==
    {date \in {2024} \X (1..12) \X (1..31) :
        date[3] <= DaysInMonth(date[1], date[2])}

\* the dates the call has to return: the days, or for frequency "M" the
\* first days of months, from start_date to end_date, or start_date alone
\* when end_date is absent, and the missing dates
ExpectedDates ==
    (IF gd_end_date = <<>> THEN {gd_start_date}
     ELSE {date \in Calendar :
              /\ DateLe(gd_start_date, date)
              /\ DateLe(date, gd_end_date)
              /\ gd_frequency = "M" => date[3] = 1})
    \cup {gd_missing_dates[k] : k \in DOMAIN gd_missing_dates}

DateChunks == gd_result.value

RECURSIVE Concatenation(_)
Concatenation(chunks) ==
    IF chunks = <<>> THEN <<>> ELSE Head(chunks) \o Concatenation(Tail(chunks))

\* C25: the chunks generate_date_series returns are non-empty, hold at most
\* chunk_size dates each (exactly chunk_size, all but the last), share no
\* date, and joined in order are the dates from start_date to end_date at the
\* frequency (start_date alone without end_date) together with the missing
\* dates, each once, in ascending order.
C25_ChunksPartitionSortedDates ==
    gd_result.status = "ok"
    => LET all == Concatenation(DateChunks)
       IN  /\ \A c \in DOMAIN DateChunks :
                 /\ Len(DateChunks[c]) >= 1
                 /\ Len(DateChunks[c]) <= gd_chunk_size
                 /\ c < Len(DateChunks) => Len(DateChunks[c]) = gd_chunk_size
           /\ \A b, c \in DOMAIN DateChunks :
                 b # c => {DateChunks[b][k] : k \in DOMAIN DateChunks[b]}
                          \cap {DateChunks[c][k] : k \in DOMAIN DateChunks[c]}
                          = {}
           /\ {all[k] : k \in DOMAIN all} = ExpectedDates
           /\ Len(all) = Cardinality(ExpectedDates)
           /\ \A j, k \in DOMAIN all : j < k => DateLt(all[j], all[k])

\* a call with a missing date given twice, one missing date inside the range
\* and one before it, whose dates fill more than two chunks
C25_Witness ==
    /\ gd_result.status = "ok"
    /\ gd_end_date # <<>>
    /\ Len(gd_missing_dates) = 2
    /\ \E k \in DOMAIN gd_missing_dates :
          DateLt(gd_missing_dates[k], gd_start_date)
    /\ \E k \in DOMAIN gd_missing_dates :
          /\ DateLe(gd_start_date, gd_missing_dates[k])
          /\ DateLe(gd_missing_dates[k], gd_end_date)
    /\ gd_chunk_size = 2
    /\ Len(DateChunks) >= 3
    /\ Len(DateChunks[Len(DateChunks)]) = 1

------------------------------------------------------------------------------
(* Properties of the reductions in binary64, checked under MeanSpec *)

RowStats == nm_result.value

\* the checks of validate_stats (lines 51-66) on min, mean and max that
\* are not nan
PassesMeanRule ==
    /\ Le64(RowStats.min, RowStats.max)
    /\ Le64(RowStats.min, RowStats.mean)
    /\ Le64(RowStats.mean, RowStats.max)

\* C28 (as claimed): the statistics of every row with a sample satisfy
\* min <= mean <= max, the statistics of a row without one are NaN with
\* count 0, and so the reducer's output is never rejected by validate_stats
\* on a statistical rule.
C28_ReducerOutputPassesStatRules ==
    nm_result.status = "ok"
    => IF RowStats.count = 0
       THEN IsNaN(RowStats.mean) /\ IsNaN(RowStats.max) /\ IsNaN(RowStats.min)
       ELSE PassesMeanRule

====
